---- MODULE Spec2Model ----
(***************************************************************************)
(* Verification model of the log-it workout tracker: the workout logger    *)
(* (suggestion lookup, insight lookup, draft autosave, submit) and the     *)
(* server-side session creation with its readers.                          *)
(*                                                                         *)
(* Strings are sequences of one-character strings, so that trimming,       *)
(* lower-casing and whitespace collapsing are computed, not assumed.       *)
(***************************************************************************)
EXTENDS Integers, Sequences, FiniteSets, TLC

(***************************************************************************)
(* Text helpers                                                            *)
(***************************************************************************)

None == "none"

\* JS \s restricted to the two whitespace characters the model types.
IsWs(c) == c \in {" ", "\t"}

LowerLetters == <<"a", "b", "c", "d", "e", "f", "g", "h", "i", "j", "k", "l", "m", "n", "o", "p", "q", "r", "s", "t", "u", "v", "w", "x", "y", "z">>

UpperLetters == <<"A", "B", "C", "D", "E", "F", "G", "H", "I", "J", "K", "L", "M", "N", "O", "P", "Q", "R", "S", "T", "U", "V", "W", "X", "Y", "Z">>

\* one character of String.prototype.toLowerCase
ToLowerChar(c) ==
    IF \E i \in 1..Len(UpperLetters) : UpperLetters[i] = c
    THEN LowerLetters[CHOOSE i \in 1..Len(UpperLetters) : UpperLetters[i] = c]
    ELSE c

\* one character of String.prototype.toUpperCase
ToUpperChar(c) ==
    IF \E i \in 1..Len(LowerLetters) : LowerLetters[i] = c
    THEN UpperLetters[CHOOSE i \in 1..Len(LowerLetters) : LowerLetters[i] = c]
    ELSE c

RECURSIVE TrimStart(_)
TrimStart(s) ==
    IF s = <<>> THEN <<>>
    ELSE IF IsWs(Head(s)) THEN TrimStart(Tail(s)) ELSE s

RECURSIVE TrimEnd(_)
TrimEnd(s) ==
    IF s = <<>> THEN <<>>
    ELSE IF IsWs(s[Len(s)]) THEN TrimEnd(SubSeq(s, 1, Len(s) - 1)) ELSE s

\* String.prototype.trim
Trim(s) == TrimEnd(TrimStart(s))

\* String.prototype.toLowerCase
ToLowerCase(s) == IF s = <<>> THEN <<>> ELSE [i \in 1..Len(s) |-> ToLowerChar(s[i])]

\* value.replace(/\s+/g, " ")
RECURSIVE CollapseWs(_)
CollapseWs(s) ==
    IF s = <<>> THEN <<>>
    ELSE IF IsWs(Head(s)) THEN <<" ">> \o CollapseWs(TrimStart(s))
    ELSE <<Head(s)>> \o CollapseWs(Tail(s))

\* value.split(" ") on a string; yields at least one (possibly empty) word.
RECURSIVE SplitSpace(_)
SplitSpace(s) ==
    IF \A i \in 1..Len(s) : s[i] # " " THEN <<s>>
    ELSE LET k == CHOOSE i \in 1..Len(s) :
                      s[i] = " " /\ \A j \in 1..(i - 1) : s[j] # " "
         IN  <<SubSeq(s, 1, k - 1)>> \o SplitSpace(SubSeq(s, k + 1, Len(s)))

\* words.join(" ")
RECURSIVE JoinSpace(_)
JoinSpace(ws) ==
    IF ws = <<>> THEN <<>>
    ELSE IF Len(ws) = 1 THEN ws[1]
    ELSE ws[1] \o <<" ">> \o JoinSpace(Tail(ws))

\* array.filter(Boolean) on an array of strings
RECURSIVE FilterNonEmpty(_)
FilterNonEmpty(ws) ==
    IF ws = <<>> THEN <<>>
    ELSE IF Head(ws) = <<>> THEN FilterNonEmpty(Tail(ws))
    ELSE <<Head(ws)>> \o FilterNonEmpty(Tail(ws))

\* haystack.startsWith(needle)
StartsWith(h, n) == Len(n) <= Len(h) /\ SubSeq(h, 1, Len(n)) = n

\* haystack.indexOf(needle), 0-based, -1 when absent
IndexOf(h, n) ==
    LET hits == {i \in 0..(Len(h) - Len(n)) : SubSeq(h, i + 1, i + Len(n)) = n}
    IN  IF hits = {} THEN -1 ELSE CHOOSE i \in hits : \A j \in hits : i <= j

\* haystack.includes(needle)
Includes(h, n) == IndexOf(h, n) # -1

(***************************************************************************)
(* Name normalisation (client and server)                                  *)
(***************************************************************************)

\* the normalizer without its whitespace collapsing
normalizeExerciseLookupKey_NoCollapse(value) == ToLowerCase(Trim(value))

\* workout-logger.tsx normalizeExerciseLookupKey
normalizeExerciseLookupKey(value) == CollapseWs(ToLowerCase(Trim(value)))

\* lib/workout-utils normalizeExerciseName (server)
normalizeExerciseName(name) == CollapseWs(ToLowerCase(Trim(name)))

\* COMMON_WORD_FIXES
COMMON_WORD_FIXES ==
    {<<<<"d", "u", "m", "b", "e", "l", "l">>, <<"d", "u", "m", "b", "b", "e", "l", "l">>>>,
     <<<<"b", "a", "r", "b", "e", "l">>, <<"b", "a", "r", "b", "e", "l", "l">>>>,
     <<<<"b", "a", "r", "b", "e", "l", "l", "l">>, <<"b", "a", "r", "b", "e", "l", "l">>>>,
     <<<<"p", "u", "l", "l", "d", "w", "o", "n">>, <<"p", "u", "l", "l", "d", "o", "w", "n">>>>,
     <<<<"s", "h", "o", "u", "d", "l", "e", "r">>, <<"s", "h", "o", "u", "l", "d", "e", "r">>>>,
     <<<<"d", "e", "l", "t", "i", "o", "d">>, <<"d", "e", "l", "t", "o", "i", "d">>>>,
     <<<<"t", "r", "i", "c", "e", "p">>, <<"t", "r", "i", "c", "e", "p", "s">>>>,
     <<<<"b", "i", "c", "e", "p">>, <<"b", "i", "c", "e", "p", "s">>>>}

\* COMMON_WORD_FIXES[lower] ?? lower
CommonWordFix(lower) ==
    IF \E e \in COMMON_WORD_FIXES : e[1] = lower
    THEN (CHOOSE e \in COMMON_WORD_FIXES : e[1] = lower)[2]
    ELSE lower

CapitalizeWord(w) ==
    IF w = <<>> THEN <<>> ELSE <<ToUpperChar(w[1])>> \o SubSeq(w, 2, Len(w))

\* workout-logger.tsx normalizeExerciseDisplayName
normalizeExerciseDisplayName(value) ==
    LET trimmed == CollapseWs(Trim(value))
        words   == SplitSpace(trimmed)
    IN  IF trimmed = <<>> THEN <<>>
        ELSE JoinSpace([i \in 1..Len(words) |->
                          CapitalizeWord(CommonWordFix(ToLowerCase(words[i])))])

(***************************************************************************)
(* Finite maps (JS objects used as dictionaries)                           *)
(***************************************************************************)

EmptyMap == [x \in {} |-> None]

MapSet(f, k, v) == [x \in (DOMAIN f) \cup {k} |-> IF x = k THEN v ELSE f[x]]

MapDel(f, k) == [x \in (DOMAIN f) \ {k} |-> f[x]]

RECURSIVE SumSeq(_)
SumSeq(ns) == IF ns = <<>> THEN 0 ELSE Head(ns) + SumSeq(Tail(ns))

Max2(a, b) == IF a >= b THEN a ELSE b

(***************************************************************************)
(* Suggestion ranker (client).  Scores are kept doubled, so that the       *)
(* length penalty of 0.5 per character stays an integer.                   *)
(***************************************************************************)

NegativeInfinity == [finite |-> FALSE, twice |-> 0]

\* scoreExerciseSuggestionMatch without the rejection of a candidate equal to the query
scoreExerciseSuggestionMatch_AllowsSelf(queryKey, candidateKey) ==
    LET queryTokens == FilterNonEmpty(SplitSpace(queryKey))
        lengthPenalty == Max2(0, Len(candidateKey) - Len(queryKey))
    IN  IF queryKey = <<>> THEN NegativeInfinity
        ELSE IF queryTokens = <<>>
                \/ \E i \in 1..Len(queryTokens) : ~Includes(candidateKey, queryTokens[i])
             THEN NegativeInfinity
        ELSE [finite |-> TRUE,
              twice  |-> (IF StartsWith(candidateKey, queryKey) THEN 2 * 280 ELSE 2 * 190)
                         + 2 * 22 * Len(queryTokens) - lengthPenalty]

\* workout-logger.tsx scoreExerciseSuggestionMatch
scoreExerciseSuggestionMatch(queryKey, candidateKey) ==
    LET queryTokens == FilterNonEmpty(SplitSpace(queryKey))
        TokenScore(token) ==
            LET tokenIndex == IndexOf(candidateKey, token)
            IN  IF tokenIndex = -1 THEN 0
                ELSE IF tokenIndex = 0 \/ candidateKey[tokenIndex] = " "
                     THEN 2 * 45 ELSE 2 * 22
        base == IF StartsWith(candidateKey, queryKey) THEN 2 * 280
                ELSE IF Includes(candidateKey, queryKey) THEN 2 * 190
                ELSE 0
        lengthPenalty == Max2(0, Len(candidateKey) - Len(queryKey))
    IN  IF queryKey = <<>> \/ queryKey = candidateKey THEN NegativeInfinity
        ELSE IF queryTokens = <<>>
                \/ \E i \in 1..Len(queryTokens) : ~Includes(candidateKey, queryTokens[i])
             THEN NegativeInfinity
        ELSE [finite |-> TRUE,
              twice  |-> base
                         + SumSeq([i \in 1..Len(queryTokens) |-> TokenScore(queryTokens[i])])
                         - lengthPenalty]

\* the loop of pickBestExerciseSuggestion without the tie-break on the name's length
RECURSIVE PickBestLoop_IgnoresLength(_, _, _)
PickBestLoop_IgnoresLength(lookupKey, suggestions, best) ==
    IF suggestions = <<>> THEN best
    ELSE LET candidateName == CollapseWs(Trim(Head(suggestions)))
             score == scoreExerciseSuggestionMatch(lookupKey,
                                                   normalizeExerciseLookupKey(candidateName))
         IN  PickBestLoop_IgnoresLength(lookupKey, Tail(suggestions),
                 IF candidateName # <<>> /\ score.finite
                    /\ (~best.has \/ score.twice > best.twice)
                 THEN [has |-> TRUE, name |-> candidateName, twice |-> score.twice]
                 ELSE best)

\* the loop of pickBestExerciseSuggestion; best = [has, name, twice]
RECURSIVE PickBestLoop(_, _, _)
PickBestLoop(lookupKey, suggestions, best) ==
    IF suggestions = <<>> THEN best
    ELSE LET candidateName == CollapseWs(Trim(Head(suggestions)))
             candidateKey  == normalizeExerciseLookupKey(candidateName)
             score         == scoreExerciseSuggestionMatch(lookupKey, candidateKey)
             better ==
                 /\ candidateName # <<>>
                 /\ score.finite
                 /\ \/ ~best.has
                    \/ score.twice > best.twice
                    \/ score.twice = best.twice /\ Len(candidateName) < Len(best.name)
         IN  PickBestLoop(lookupKey, Tail(suggestions),
                          IF better
                          THEN [has |-> TRUE, name |-> candidateName, twice |-> score.twice]
                          ELSE best)

\* workout-logger.tsx pickBestExerciseSuggestion; <<>> stands for null
pickBestExerciseSuggestion(rawQuery, suggestions) ==
    LET lookupKey == normalizeExerciseLookupKey(rawQuery)
        best == PickBestLoop(lookupKey, suggestions,
                             [has |-> FALSE, name |-> <<>>, twice |-> 0])
    IN  IF lookupKey = <<>> THEN <<>> ELSE best.name


(***************************************************************************)
(* State                                                                   *)
(***************************************************************************)

VARIABLES
    \* ---- server store (Prisma tables) ----
    workoutLogs,        \* WorkoutLog rows        [id, userId, title, performedAt, totalWeightLb]
    workoutExercises,   \* WorkoutExercise rows   [id, workoutLogId, exerciseId, name, normalizedName, order]
    workoutSets,        \* WorkoutSet rows        [workoutExerciseId, order, reps, weightLb]
    exerciseCatalog,    \* Exercise rows          [id, userId, name, normalizedName, lastPerformedAt]
    nextRowId,          \* source of fresh row ids
    \* ---- POST /api/workouts handlers in progress ----
    posts,              \* request id -> handler state
    legacyPrismaClient, \* the generated client predates totalWeightLb / weightLb
    \* ---- network between the logger and the server ----
    suggestionFetches,  \* request id -> in-flight suggestion fetch
    insightFetches,     \* request id -> in-flight insight fetch
    saveFetch,          \* the in-flight POST of handleSubmit, and its response
    \* ---- workout logger component ----
    phase,              \* "initial" | "mounted" | "unmounted"
    storage,            \* localStorage[WORKOUT_DRAFT_STORAGE_KEY]
    title, performedAt, exercises,
    idCounterRef,
    exerciseInsightById, exerciseSuggestionById,
    insightCacheRef, latestInsightLookupRef,
    suggestionCacheRef, latestSuggestionLookupRef,
    suggestionDebounceTimeoutRef,
    autosaveReadyRef, latestDraftSnapshotRef, autosaveTimeout,
    formError, isSaving, didRestoreDraft, lastDraftSavedAt,
    navigated,          \* router.push("/workouts") has been called
    \* ---- history (not program state) ----
    hist                \* what the checked properties need to remember

storeVars == <<workoutLogs, workoutExercises, workoutSets, exerciseCatalog, nextRowId>>

serverVars == <<posts, legacyPrismaClient>>

netVars == <<suggestionFetches, insightFetches, saveFetch>>

formVars == <<title, performedAt, exercises, idCounterRef>>

lookupVars == <<exerciseInsightById, exerciseSuggestionById, insightCacheRef,
                latestInsightLookupRef, suggestionCacheRef, latestSuggestionLookupRef,
                suggestionDebounceTimeoutRef>>

draftVars == <<storage, autosaveReadyRef, latestDraftSnapshotRef, autosaveTimeout,
               didRestoreDraft, lastDraftSavedAt>>

submitVars == <<formError, isSaving, navigated>>

vars == <<storeVars, serverVars, netVars, phase, formVars, lookupVars, draftVars,
          submitVars, hist>>

(***************************************************************************)
(* Server reads                                                            *)
(***************************************************************************)

MAX_SUGGESTIONS == 12

INSIGHT_TAKE == 120

Take(s, n) == IF Len(s) <= n THEN s ELSE SubSeq(s, 1, n)

\* ORDER BY sortKey DESC over a set of rows; rows with equal keys come in row-id order.
\* The rows are ordered half by half: the half that comes first, then the rest.
RECURSIVE OrderDesc(_)
OrderDesc(rows) ==
    IF rows = {} THEN <<>>
    ELSE IF Cardinality(rows) = 1 THEN <<CHOOSE r \in rows : TRUE>>
    ELSE LET first == {r \in rows :
                         2 * Cardinality({q \in rows :
                                            \/ q.sortKey > r.sortKey
                                            \/ q.sortKey = r.sortKey /\ q.id < r.id})
                         < Cardinality(rows)}
         IN  OrderDesc(first) \o OrderDesc(rows \ first)

\* the de-duplication loop of the suggestions route
RECURSIVE UniqueNames(_, _)
UniqueNames(rows, seen) ==
    IF rows = <<>> THEN <<>>
    ELSE LET name == CollapseWs(Trim(Head(rows).name))
         IN  IF name = <<>> \/ name \in seen THEN UniqueNames(Tail(rows), seen)
             ELSE <<name>> \o UniqueNames(Tail(rows), seen \cup {name})

\* GET /api/workouts/exercise-suggestions for a signed-in user: the suggestions array
SuggestionsGET(userId, query) ==
    LET tokens == Take(FilterNonEmpty(SplitSpace(normalizeExerciseName(query))), 6)
        found == {e \in exerciseCatalog :
                    /\ e.userId = userId
                    /\ \A i \in 1..Len(tokens) : Includes(e.normalizedName, tokens[i])}
        rows == {[id |-> e.id, sortKey |-> e.lastPerformedAt, name |-> e.name] : e \in found}
    IN  IF tokens = <<>> THEN <<>>
        ELSE UniqueNames(Take(OrderDesc(rows), MAX_SUGGESTIONS), {})

NullWeight == [isNull |-> TRUE, v |-> 0]

Weight(n) == [isNull |-> FALSE, v |-> n]

\* the per-set loop of the insights route, over the sets of one WorkoutExercise row
RECURSIVE FoldInsightSets(_, _)
FoldInsightSets(session, sets) ==
    IF sets = <<>> THEN session
    ELSE LET set == Head(sets)
             counted == [session EXCEPT !.setCount = @ + 1, !.totalReps = @ + set.reps]
             weighed ==
                 IF set.weightLb.isNull THEN counted
                 ELSE LET w == set.weightLb.v
                          b == IF counted.bestWeight.isNull \/ w > counted.bestWeight.v
                               THEN [counted EXCEPT !.bestWeight = Weight(w),
                                                    !.bestWeightReps = set.reps]
                               ELSE IF w = counted.bestWeight.v
                                       /\ set.reps > counted.bestWeightReps
                               THEN [counted EXCEPT !.bestWeightReps = set.reps]
                               ELSE counted
                      IN  [b EXCEPT !.totalVolume = @ + w * set.reps]
         IN  FoldInsightSets(weighed, Tail(sets))

SetsOf(workoutExerciseId) ==
    LET rows == {s \in workoutSets : s.workoutExerciseId = workoutExerciseId}
    IN  OrderDesc({[id |-> s.order, sortKey |-> 0 - s.order, reps |-> s.reps,
                    weightLb |-> s.weightLb] : s \in rows})

LogOf(workoutLogId) == CHOOSE l \in workoutLogs : l.id = workoutLogId

\* the loop over exerciseLogs: sessionsByWorkoutId as a sequence in insertion order;
\* a run over several rows is the run over their first half, then over the rest
\* (a run over at least one row leaves at least one session)
RECURSIVE FoldInsightLogs(_, _)
FoldInsightLogs(sessions, exerciseLogs) ==
    IF exerciseLogs = <<>> THEN sessions
    ELSE IF Len(exerciseLogs) > 1
    THEN LET half == Len(exerciseLogs) \div 2
             midway == FoldInsightLogs(sessions, SubSeq(exerciseLogs, 1, half))
         IN  IF midway = <<>> THEN <<>>
             ELSE FoldInsightLogs(midway, SubSeq(exerciseLogs, half + 1, Len(exerciseLogs)))
    ELSE LET x == Head(exerciseLogs)
             log == LogOf(x.workoutLogId)
             fresh == [workoutId |-> log.id, workoutTitle |-> log.title,
                       performedAt |-> log.performedAt, setCount |-> 0, totalReps |-> 0,
                       bestWeight |-> NullWeight, bestWeightReps |-> 0, totalVolume |-> 0]
             known == \E i \in 1..Len(sessions) : sessions[i].workoutId = log.id
             at == IF known
                   THEN CHOOSE i \in 1..Len(sessions) : sessions[i].workoutId = log.id
                   ELSE Len(sessions) + 1
             base == IF known THEN sessions ELSE Append(sessions, fresh)
         IN  [base EXCEPT ![at] = FoldInsightSets(@, SetsOf(x.id))]

\* sessions.reduce(... Math.max ...), run over the first half and then over the rest
RECURSIVE AllTimeBest(_, _)
AllTimeBest(max, sessions) ==
    IF sessions = <<>> THEN max
    ELSE IF Len(sessions) > 1
    THEN LET half == Len(sessions) \div 2
             midway == AllTimeBest(max, SubSeq(sessions, 1, half))
         IN  IF midway.isNull
             THEN AllTimeBest(NullWeight, SubSeq(sessions, half + 1, Len(sessions)))
             ELSE AllTimeBest(midway, SubSeq(sessions, half + 1, Len(sessions)))
    ELSE LET b == Head(sessions).bestWeight
         IN  IF b.isNull THEN max
             ELSE IF max.isNull THEN b
             ELSE Weight(Max2(max.v, b.v))

\* Math.round over a weight or a volume held in tenths
MathRound(tenths) == ((tenths + 5) \div 10) * 10

\* GET /api/workouts/insights for a signed-in user and a non-blank exercise name: the 200 body
InsightsGET(userId, exerciseParam) ==
    LET exerciseName == Trim(exerciseParam)
        normalizedName == normalizeExerciseName(exerciseName)
        found == {x \in workoutExercises :
                    /\ x.normalizedName = normalizedName
                    /\ \E l \in workoutLogs : l.id = x.workoutLogId /\ l.userId = userId}
        exerciseLogs ==
            Take(OrderDesc({[id |-> x.id, sortKey |-> LogOf(x.workoutLogId).performedAt,
                             workoutLogId |-> x.workoutLogId] : x \in found}),
                 INSIGHT_TAKE)
        \* exerciseLogs arrive newest first, so the stable sort of the sessions by
        \* performedAt (descending) leaves the insertion order as it is
        sessions == FoldInsightLogs(<<>>, exerciseLogs)
    IN  [exerciseName |-> exerciseName,
         normalizedName |-> normalizedName,
         sessionsCount |-> Len(sessions),
         hasLastSession |-> sessions # <<>>,
         lastSession |-> IF sessions = <<>> THEN <<>>
                         ELSE <<[sessions[1] EXCEPT !.totalVolume = MathRound(@)]>>,
         allTimeBestWeight |-> AllTimeBest(NullWeight, sessions)]


(***************************************************************************)
(* Server reads: the exercise detail page and the dashboard                *)
(***************************************************************************)

\* the WorkoutExercise rows of a user, as rows OrderDesc sorts by performedAt
ExerciseRowsOf(userId) ==
    {x \in workoutExercises :
        \E l \in workoutLogs : l.id = x.workoutLogId /\ l.userId = userId}

\* exercise detail page, fetchExerciseLogs: the rows whose key or whose catalog
\* entry's key is exerciseKey, else the rows whose name normalizes to it; newest first
fetchExerciseLogs(userId, exerciseKey) ==
    LET direct == {x \in ExerciseRowsOf(userId) :
                     \/ x.normalizedName = exerciseKey
                     \/ \E e \in exerciseCatalog :
                           e.id = x.exerciseId /\ e.normalizedName = exerciseKey}
        byName == {x \in ExerciseRowsOf(userId) : normalizeExerciseName(x.name) = exerciseKey}
    IN  OrderDesc({[id |-> x.id, sortKey |-> LogOf(x.workoutLogId).performedAt,
                    workoutLogId |-> x.workoutLogId] :
                   x \in IF direct # {} THEN direct ELSE byName})

(***************************************************************************)
(* Route keys of the exercise detail page                                  *)
(***************************************************************************)

\* the printable ASCII characters in code order: AsciiChars[i] has code 31 + i (the
\* quote, the backslash and the backtick, which no text of the model holds, are named)
AsciiChars ==
    <<" ", "!", "(quote)", "#", "$", "%", "&", "'", "(", ")", "*", "+",
      ",", "-", ".", "/", "0", "1", "2", "3", "4", "5", "6", "7",
      "8", "9", ":", ";", "<", "=", ">", "?", "@", "A", "B", "C",
      "D", "E", "F", "G", "H", "I", "J", "K", "L", "M", "N", "O",
      "P", "Q", "R", "S", "T", "U", "V", "W", "X", "Y", "Z", "[",
      "(backslash)", "]", "^", "_", "(backtick)", "a", "b", "c", "d", "e", "f", "g",
      "h", "i", "j", "k", "l", "m", "n", "o", "p", "q", "r", "s",
      "t", "u", "v", "w", "x", "y", "z", "{", "|", "}", "~">>

HexDigits == <<"0", "1", "2", "3", "4", "5", "6", "7", "8", "9", "a", "b", "c", "d", "e", "f">>

IsHexDigit(c) == \E i \in 1..16 : HexDigits[i] = ToLowerChar(c)

HexValue(c) == (CHOOSE i \in 1..16 : HexDigits[i] = ToLowerChar(c)) - 1

CharCode(c) == 31 + (CHOOSE i \in 1..Len(AsciiChars) : AsciiChars[i] = c)

RECURSIVE HexOfChars(_)
HexOfChars(text) ==
    IF text = <<>> THEN <<>>
    ELSE <<HexDigits[(CharCode(Head(text)) \div 16) + 1],
           HexDigits[(CharCode(Head(text)) % 16) + 1]>> \o HexOfChars(Tail(text))

\* createHash("sha256").update(text).digest("hex"): 64 hex digits. SHA-256 is stood for
\* by a digest that differs wherever the texts differ (texts of up to 16 characters):
\* the codes of the characters, then zeros
DigestHex(text) ==
    LET hex == HexOfChars(text)
    IN  [i \in 1..64 |-> IF i <= Len(hex) THEN hex[i] ELSE "0"]

\* exercise-route-key.ts toUuidLike
toUuidLike(hex) ==
    LET value == [i \in 1..32 |-> IF i <= Len(hex) THEN hex[i] ELSE "0"]
    IN  SubSeq(value, 1, 8) \o <<"-">> \o SubSeq(value, 9, 12) \o <<"-">>
        \o SubSeq(value, 13, 16) \o <<"-">> \o SubSeq(value, 17, 20) \o <<"-">>
        \o SubSeq(value, 21, 32)

\* exercise-route-key.ts toExerciseRouteKey
toExerciseRouteKey(normalizedExerciseName) == toUuidLike(DigestHex(normalizedExerciseName))

\* exercise-route-key.ts isUuidLikeKey
isUuidLikeKey(value) ==
    /\ Len(value) = 36
    /\ \A i \in 1..36 : IF i \in {9, 14, 19, 24} THEN value[i] = "-"
                         ELSE IsHexDigit(value[i])

\* an escape decodeURIComponent throws on; the model's segments escape printable
\* ASCII only
MalformedEscape(text) ==
    \E i \in 1..Len(text) :
       /\ text[i] = "%"
       /\ \/ i + 2 > Len(text)
          \/ ~IsHexDigit(text[i + 1])
          \/ ~IsHexDigit(text[i + 2])
          \/ HexValue(text[i + 1]) * 16 + HexValue(text[i + 2]) \notin 32..126

RECURSIVE PercentDecode(_)
PercentDecode(text) ==
    IF text = <<>> THEN <<>>
    ELSE IF Head(text) = "%"
    THEN <<AsciiChars[HexValue(text[2]) * 16 + HexValue(text[3]) - 31]>>
         \o PercentDecode(SubSeq(text, 4, Len(text)))
    ELSE <<Head(text)>> \o PercentDecode(Tail(text))

\* the try/catch around decodeURIComponent(rawParam)
decodedParam(rawParam) ==
    IF MalformedEscape(rawParam) THEN rawParam ELSE PercentDecode(rawParam)

\* resolveNormalizedExerciseKey with a catalog scan that stops at the first match
\* although the segment is the route key of no catalog entry
resolveNormalizedExerciseKey_FirstCatalogEntry(userId, rawParam) ==
    LET normalizedDirect == normalizeExerciseName(decodedParam(rawParam))
        own == {e \in exerciseCatalog : e.userId = userId}
    IN  IF normalizedDirect # <<>> /\ ~isUuidLikeKey(normalizedDirect) THEN normalizedDirect
        ELSE IF own # {} THEN (CHOOSE e \in own : TRUE).normalizedName
        ELSE normalizedDirect

\* resolveNormalizedExerciseKey with the scans not restricted to the user
resolveNormalizedExerciseKey_AnyUser(userId, rawParam) ==
    LET normalizedDirect == normalizeExerciseName(decodedParam(rawParam))
        catalogKeys == {e.normalizedName : e \in exerciseCatalog}
        matching == {k \in catalogKeys : toExerciseRouteKey(k) = normalizedDirect}
    IN  IF normalizedDirect # <<>> /\ ~isUuidLikeKey(normalizedDirect) THEN normalizedDirect
        ELSE IF matching # {} THEN CHOOSE k \in matching : TRUE
        ELSE normalizedDirect

\* part_003 resolveNormalizedExerciseKey: the text itself unless it is empty or shaped
\* like a route key; else the catalog entry with that route key, else the history row
\* with it, else the text. Each scan returns its first match; matches of one scan
\* differ only where two keys share a route key
resolveNormalizedExerciseKey(userId, rawParam) ==
    LET normalizedDirect == normalizeExerciseName(decodedParam(rawParam))
        catalogKeys == {e.normalizedName : e \in {c \in exerciseCatalog : c.userId = userId}}
        inCatalog == {k \in catalogKeys : toExerciseRouteKey(k) = normalizedDirect}
        historyKeys == {IF x.normalizedName # <<>> THEN x.normalizedName
                        ELSE normalizeExerciseName(x.name) : x \in ExerciseRowsOf(userId)}
        inHistory == {k \in historyKeys :
                        k # <<>> /\ toExerciseRouteKey(k) = normalizedDirect}
    IN  IF normalizedDirect # <<>> /\ ~isUuidLikeKey(normalizedDirect) THEN normalizedDirect
        ELSE IF inCatalog # {} THEN CHOOSE k \in inCatalog : TRUE
        ELSE IF inHistory # {} THEN CHOOSE k \in inHistory : TRUE
        ELSE normalizedDirect

\* exercise detail page: the per-set loop over the sets of one row
RECURSIVE FoldDetailSets(_, _)
FoldDetailSets(session, sets) ==
    IF sets = <<>> THEN session
    ELSE LET set == Head(sets)
             counted == [session EXCEPT !.setCount = @ + 1, !.totalReps = @ + set.reps]
         IN  FoldDetailSets(
                 IF set.weightLb.isNull THEN counted
                 ELSE [counted EXCEPT !.weightedSetCount = @ + 1,
                                      !.bestWeight = Max2(@, set.weightLb.v),
                                      !.totalLoad = @ + set.weightLb.v * set.reps],
                 Tail(sets))

\* exercise detail page: the loop over exerciseLogs, sessionsByWorkout in insertion order
RECURSIVE FoldDetailLogs(_, _)
FoldDetailLogs(sessions, exerciseLogs) ==
    IF exerciseLogs = <<>> THEN sessions
    ELSE LET x == Head(exerciseLogs)
             fresh == [workoutId |-> x.workoutLogId, setCount |-> 0, totalReps |-> 0,
                       weightedSetCount |-> 0, bestWeight |-> 0, totalLoad |-> 0]
             known == \E i \in 1..Len(sessions) : sessions[i].workoutId = x.workoutLogId
             at == IF known
                   THEN CHOOSE i \in 1..Len(sessions) : sessions[i].workoutId = x.workoutLogId
                   ELSE Len(sessions) + 1
             base == IF known THEN sessions ELSE Append(sessions, fresh)
         IN  FoldDetailLogs([base EXCEPT ![at] = FoldDetailSets(@, SetsOf(x.id))],
                            Tail(exerciseLogs))

\* sessions.reduce((max, session) => Math.max(max, session.bestWeight), 0)
RECURSIVE MaxBestWeight(_, _)
MaxBestWeight(max, sessions) ==
    IF sessions = <<>> THEN max
    ELSE MaxBestWeight(Max2(max, Head(sessions).bestWeight), Tail(sessions))

\* ExerciseDetailPage for a resolved key: the aggregate behind the page's metrics;
\* found = FALSE is notFound()
ExerciseDetailPage(userId, normalizedKey) ==
    LET exerciseLogs == fetchExerciseLogs(userId, normalizedKey)
        sessions == FoldDetailLogs(<<>>, exerciseLogs)
    IN  [found |-> exerciseLogs # <<>>,
         sessionsCount |-> Len(sessions),
         totalSetCount |-> SumSeq([i \in 1..Len(sessions) |-> sessions[i].setCount]),
         totalReps |-> SumSeq([i \in 1..Len(sessions) |-> sessions[i].totalReps]),
         weightedSetCount |-> SumSeq([i \in 1..Len(sessions) |-> sessions[i].weightedSetCount]),
         totalLoad |-> SumSeq([i \in 1..Len(sessions) |-> sessions[i].totalLoad]),
         bestWeight |-> MaxBestWeight(0, sessions)]

\* item.sets.reduce((max, set) => Math.max(max, toWeightValue(set.weightLb) ?? 0), 0)
RECURSIVE MaxSetWeight(_, _)
MaxSetWeight(max, sets) ==
    IF sets = <<>> THEN max
    ELSE MaxSetWeight(Max2(max, IF Head(sets).weightLb.isNull THEN 0
                                ELSE Head(sets).weightLb.v),
                      Tail(sets))

\* dashboard: the loop that fills exerciseSummaryMap
RECURSIVE FoldExerciseSummary(_, _)
FoldExerciseSummary(summaryMap, exerciseLogs) ==
    IF exerciseLogs = <<>> THEN summaryMap
    ELSE LET item == Head(exerciseLogs)
             key == normalizeExerciseName(item.name)
             sets == SetsOf(item.id)
             setCount == Len(sets)
             totalReps == SumSeq([j \in 1..Len(sets) |-> sets[j].reps])
             bestWeight == MaxSetWeight(0, sets)
             current == summaryMap[key]
             added == [current EXCEPT !.sessions = @ \cup {item.workoutLogId},
                                      !.setCount = @ + setCount,
                                      !.totalReps = @ + totalReps,
                                      !.bestWeight = Max2(@, bestWeight)]
         IN  FoldExerciseSummary(
                 IF key = <<>> THEN summaryMap
                 ELSE IF key \notin DOMAIN summaryMap
                 THEN MapSet(summaryMap, key,
                             [key |-> key, name |-> item.name,
                              sessions |-> {item.workoutLogId}, setCount |-> setCount,
                              totalReps |-> totalReps, bestWeight |-> bestWeight,
                              lastPerformedAt |-> item.sortKey])
                 ELSE MapSet(summaryMap, key,
                             IF item.sortKey > current.lastPerformedAt
                             THEN [added EXCEPT !.lastPerformedAt = item.sortKey,
                                                !.name = item.name]
                             ELSE added),
                 Tail(exerciseLogs))

\* DashboardPage: exerciseSummaryMap over all exercise rows of the user, newest first
DashboardExerciseSummary(userId) ==
    FoldExerciseSummary(EmptyMap,
        OrderDesc({[id |-> x.id, sortKey |-> LogOf(x.workoutLogId).performedAt,
                    workoutLogId |-> x.workoutLogId, name |-> x.name] :
                   x \in ExerciseRowsOf(userId)}))

\* DashboardPage: the exercises handed to the dashboard, one per summarized key
\* (the page keeps the 80 with the most sessions)
DashboardExercises(userId) ==
    LET summaryMap == DashboardExerciseSummary(userId)
    IN  {[key |-> summaryMap[k].key,
          name |-> summaryMap[k].name,
          sessionCount |-> Cardinality(summaryMap[k].sessions),
          setCount |-> summaryMap[k].setCount,
          totalReps |-> summaryMap[k].totalReps,
          bestWeight |-> MathRound(summaryMap[k].bestWeight)] : k \in DOMAIN summaryMap}


(***************************************************************************)
(* Workout logger: draft snapshot                                          *)
(***************************************************************************)

WORKOUT_AUTOSAVE_DELAY_MS == 350

EXERCISE_SUGGESTION_DEBOUNCE_MS == 140


ExerciseIds == <<"exercise-1", "exercise-2", "exercise-3", "exercise-4", "exercise-5">>

SetIds == <<"set-1", "set-2", "set-3", "set-4", "set-5", "set-6">>

Digits == {"0", "1", "2", "3", "4", "5", "6", "7", "8", "9"}

RECURSIVE KeepChars(_, _)
KeepChars(s, allowed) ==
    IF s = <<>> THEN <<>>
    ELSE IF Head(s) \in allowed THEN <<Head(s)>> \o KeepChars(Tail(s), allowed)
    ELSE KeepChars(Tail(s), allowed)

\* workout-logger.tsx sanitizeRepsInput
sanitizeRepsInput(value) == KeepChars(value, Digits)

\* workout-logger.tsx sanitizeWeightInput
sanitizeWeightInput(value) ==
    LET dotted == IF value = <<>> THEN <<>>
                  ELSE [i \in 1..Len(value) |-> IF value[i] = "," THEN "." ELSE value[i]]
        normalized == KeepChars(dotted, Digits \cup {"."})
        firstDotIndex == IndexOf(normalized, <<".">>)
    IN  IF normalized = <<>> THEN <<>>
        ELSE IF firstDotIndex = -1 THEN normalized
        ELSE SubSeq(normalized, 1, firstDotIndex + 1)
             \o KeepChars(SubSeq(normalized, firstDotIndex + 2, Len(normalized)), Digits)

\* workout-logger.tsx createSetDraft
createSetDraft(id) == [id |-> id, reps |-> <<>>, weightLb |-> <<>>]

\* workout-logger.tsx createExerciseDraft
createExerciseDraft(id, setId) == [id |-> id, name |-> <<>>, sets |-> <<createSetDraft(setId)>>]

BlankSnapshotSet == [reps |-> <<>>, weightLb |-> <<>>]

\* workout-logger.tsx createWorkoutDraftSnapshot
createWorkoutDraftSnapshot(t, p, exs) ==
    [title |-> t,
     performedAt |-> p,
     exercises |->
        [i \in 1..Len(exs) |->
            [name |-> exs[i].name,
             sets |-> IF Len(exs[i].sets) > 0
                      THEN [j \in 1..Len(exs[i].sets) |->
                              [reps |-> sanitizeRepsInput(exs[i].sets[j].reps),
                               weightLb |-> sanitizeWeightInput(exs[i].sets[j].weightLb)]]
                      ELSE <<BlankSnapshotSet>>]]]

NoItem == [kind |-> "absent"]

\* a stored value that persistWorkoutDraft did not write, by kind: "empty" is the
\* empty string, "invalid" a text that is not JSON ("{oops"), "scalar" a JSON scalar
\* (42, "x", true, null), "array" the JSON array []
ForeignItem(kind) == [kind |-> kind]

\* truthiness of getItem's result: null and "" are falsy
IsTruthy(rawValue) == rawValue.kind \notin {"absent", "empty"}

\* the value persistWorkoutDraft stores: JSON.stringify({...snapshot, savedAt})
DraftItem(snapshot) ==
    [kind |-> "draft", title |-> snapshot.title, performedAt |-> snapshot.performedAt,
     exercises |-> snapshot.exercises, savedAt |-> "iso"]

\* FormEffects without the autosave effect's cleanup: a pending timer is left running
FormEffects_KeepsPendingTimer(t, p, exs) ==
    /\ latestDraftSnapshotRef' = <<createWorkoutDraftSnapshot(t, p, exs)>>
    /\ autosaveTimeout' =
          IF autosaveReadyRef /\ autosaveTimeout = <<>>
          THEN <<[remaining |-> WORKOUT_AUTOSAVE_DELAY_MS,
                  title |-> t, performedAt |-> p, exercises |-> exs]>>
          ELSE autosaveTimeout

\* FormEffects without the effect that refreshes latestDraftSnapshotRef
FormEffects_StaleSnapshotRef(t, p, exs) ==
    /\ UNCHANGED latestDraftSnapshotRef
    /\ autosaveTimeout' =
          IF autosaveReadyRef
          THEN <<[remaining |-> WORKOUT_AUTOSAVE_DELAY_MS,
                  title |-> t, performedAt |-> p, exercises |-> exs]>>
          ELSE <<>>

\* The re-run of the two effects that depend on [title, performedAt, exercises]:
\* the snapshot ref is refreshed, the pending autosave timer is cleared and, once
\* autosave is ready, a new one is set whose callback closes over the rendered form.
FormEffects(t, p, exs) ==
    /\ latestDraftSnapshotRef' = <<createWorkoutDraftSnapshot(t, p, exs)>>
    /\ autosaveTimeout' =
          IF autosaveReadyRef
          THEN <<[remaining |-> WORKOUT_AUTOSAVE_DELAY_MS,
                  title |-> t, performedAt |-> p, exercises |-> exs]>>
          ELSE <<>>


(***************************************************************************)
(* Workout logger: loading the stored draft                                *)
(***************************************************************************)

NowLocal == "2026-01-01T10:00"

WellFormedDateTimes == {"2026-01-01T10:00", "2026-01-02T09:30"}

\* toLocalDateTimeInputValue(parseLocalDateTimeInputValue(value)): a well-formed
\* "YYYY-MM-DDTHH:mm" value comes back as it is, anything else becomes the current time.
reformatPerformedAt(value) == IF value \in WellFormedDateTimes THEN value ELSE NowLocal

\* workout-logger.tsx parseStoredWorkoutDraft; <<>> stands for null
parseStoredWorkoutDraft(rawValue) ==
    IF ~IsTruthy(rawValue) \/ rawValue.kind \in {"invalid", "scalar"} THEN <<>>
    ELSE IF rawValue.kind = "array"
    THEN <<[title |-> "Gym session", performedAt |-> reformatPerformedAt(""),
            exercises |-> <<[name |-> <<>>, sets |-> <<BlankSnapshotSet>>]>>,
            savedAt |-> ""]>>
    ELSE LET ParseSets(sets) ==
                 IF Len(sets) > 0
                 THEN [j \in 1..Len(sets) |->
                         [reps |-> sanitizeRepsInput(sets[j].reps),
                          weightLb |-> sanitizeWeightInput(sets[j].weightLb)]]
                 ELSE <<BlankSnapshotSet>>
             parsed == [i \in 1..Len(rawValue.exercises) |->
                          [name |-> rawValue.exercises[i].name,
                           sets |-> ParseSets(rawValue.exercises[i].sets)]]
         IN  <<[title |-> rawValue.title,
                performedAt |-> reformatPerformedAt(rawValue.performedAt),
                exercises |-> IF Len(rawValue.exercises) = 0
                              THEN <<[name |-> <<>>, sets |-> <<BlankSnapshotSet>>]>>
                              ELSE parsed,
                savedAt |-> rawValue.savedAt]>>

\* number of sets in the first n exercises of a snapshot
RECURSIVE SetsBefore(_, _)
SetsBefore(exs, n) == IF n = 0 THEN 0 ELSE SetsBefore(exs, n - 1) + Len(exs[n].sets)

\* hydrateExercisesFromSnapshot with a set counter that starts again in every exercise
hydrateExercisesFromSnapshot_CounterPerExercise(exs) ==
    LET hydrated ==
            [i \in 1..Len(exs) |->
                [id |-> ExerciseIds[i],
                 name |-> exs[i].name,
                 sets |-> [j \in 1..Len(exs[i].sets) |->
                             [id |-> SetIds[j],
                              reps |-> exs[i].sets[j].reps,
                              weightLb |-> exs[i].sets[j].weightLb]]]]
        setCounter == SetsBefore(exs, Len(exs))
    IN  [exercises |-> IF Len(exs) > 0 THEN hydrated
                       ELSE <<createExerciseDraft(ExerciseIds[1], SetIds[1])>>,
         counters |-> [exercise |-> Max2(Len(exs), 1), set |-> Max2(setCounter, 1)]]

\* workout-logger.tsx hydrateExercisesFromSnapshot
hydrateExercisesFromSnapshot(exs) ==
    LET hydrated ==
            [i \in 1..Len(exs) |->
                [id |-> ExerciseIds[i],
                 name |-> exs[i].name,
                 sets |-> [j \in 1..Len(exs[i].sets) |->
                             [id |-> SetIds[SetsBefore(exs, i - 1) + j],
                              reps |-> exs[i].sets[j].reps,
                              weightLb |-> exs[i].sets[j].weightLb]]]]
        setCounter == SetsBefore(exs, Len(exs))
    IN  [exercises |-> IF Len(exs) > 0 THEN hydrated
                       ELSE <<createExerciseDraft(ExerciseIds[1], SetIds[1])>>,
         counters |-> [exercise |-> Max2(Len(exs), 1), set |-> Max2(setCounter, 1)]]

(***************************************************************************)
(* Workout logger: state updates shared by the handlers                    *)
(***************************************************************************)

ClientUser == "u1"

ExerciseIdsOf(exs) == {exs[i].id : i \in 1..Len(exs)}

\* updateExercise(id, e => ({...e, name}))
WithName(exs, id, name) ==
    [i \in 1..Len(exs) |-> IF exs[i].id = id THEN [exs[i] EXCEPT !.name = name] ELSE exs[i]]

NameOf(exs, id) == exs[CHOOSE i \in 1..Len(exs) : exs[i].id = id].name

\* setExerciseSuggestion applied to a map; <<>> stands for null
setExerciseSuggestion(current, exerciseId, suggestion) ==
    IF suggestion = <<>> THEN MapDel(current, exerciseId)
    ELSE MapSet(current, exerciseId, suggestion)

\* resetExerciseInsightState applied to a map
resetExerciseInsightState(current, exerciseId) ==
    IF exerciseId \notin DOMAIN current \/ current[exerciseId].status = "idle"
    THEN current
    ELSE MapSet(current, exerciseId, [status |-> "idle"])


(***************************************************************************)
(* Bounds and inputs                                                       *)
(***************************************************************************)

\* name edits (keystroke events) per run
MaxEdits == 3

\* suggestion and insight fetches in flight at a time
MaxInFlight == 2

\* exercise ids handed out (idCounterRef.exercise)
MaxExerciseId == 2

\* set ids handed out (idCounterRef.set)
MaxSetId == 3

\* edits of the title, the date and the sets in one behaviour
MaxFormEdits == 2

\* what the user leaves in a name input after an edit
TypedNames == {<<>>, <<"b">>, <<"b", "e">>}

\* bookkeeping of a form mutation: a mutation less than the autosave delay after
\* the previous one continues the burst, any other starts a new burst
Mutated(h) ==
    [h EXCEPT !.burstWrites = IF h.edited /\ h.sinceEdit < WORKOUT_AUTOSAVE_DELAY_MS
                              THEN @ ELSE 0,
              !.burstEdits = IF h.edited /\ h.sinceEdit < WORKOUT_AUTOSAVE_DELAY_MS
                             THEN (IF @ >= 2 THEN 2 ELSE @ + 1) ELSE 1,
              !.hidden = FALSE,
              !.sinceEdit = 0, !.edited = TRUE, !.savedOk = FALSE]

(***************************************************************************)
(* Workout logger: suggestion lookup                                       *)
(***************************************************************************)

\* clearPendingSuggestionLookup applied to the timer map
clearPendingSuggestionLookup(timeouts, exerciseId) == MapDel(timeouts, exerciseId)

\* queueExerciseSuggestionLookup
QueueExerciseSuggestionLookup(exerciseId, rawValue) ==
    IF Trim(rawValue) = <<>>
    THEN /\ suggestionDebounceTimeoutRef' =
                clearPendingSuggestionLookup(suggestionDebounceTimeoutRef, exerciseId)
         /\ exerciseSuggestionById' =
                setExerciseSuggestion(exerciseSuggestionById, exerciseId, <<>>)
         /\ latestSuggestionLookupRef' = MapDel(latestSuggestionLookupRef, exerciseId)
    ELSE /\ suggestionDebounceTimeoutRef' =
                MapSet(clearPendingSuggestionLookup(suggestionDebounceTimeoutRef, exerciseId),
                       exerciseId,
                       [remaining |-> EXERCISE_SUGGESTION_DEBOUNCE_MS, rawValue |-> rawValue])
         /\ UNCHANGED <<exerciseSuggestionById, latestSuggestionLookupRef>>

\* fetchExerciseSuggestions up to its await
FetchExerciseSuggestions(exerciseId, query) ==
    LET lookupKey == normalizeExerciseLookupKey(query)
    IN  IF lookupKey = <<>>
        THEN /\ exerciseSuggestionById' =
                    setExerciseSuggestion(exerciseSuggestionById, exerciseId, <<>>)
             /\ latestSuggestionLookupRef' = MapDel(latestSuggestionLookupRef, exerciseId)
             /\ UNCHANGED suggestionFetches
        ELSE IF lookupKey \in DOMAIN suggestionCacheRef
        THEN /\ exerciseSuggestionById' =
                    setExerciseSuggestion(exerciseSuggestionById, exerciseId,
                        pickBestExerciseSuggestion(query, suggestionCacheRef[lookupKey]))
             /\ UNCHANGED <<latestSuggestionLookupRef, suggestionFetches>>
        ELSE /\ Cardinality(suggestionFetches) + Cardinality(insightFetches) < MaxInFlight
             /\ latestSuggestionLookupRef' =
                    MapSet(latestSuggestionLookupRef, exerciseId, lookupKey)
             /\ suggestionFetches' = suggestionFetches \cup
                    {[exerciseId |-> exerciseId, query |-> query, lookupKey |-> lookupKey]}
             /\ UNCHANGED exerciseSuggestionById

\* history: the slot's most recently issued suggestion lookup and what it answered
LookupIssued(h, exerciseId, query) ==
    LET lookupKey == normalizeExerciseLookupKey(query)
    IN  IF lookupKey = <<>> THEN MapDel(h, exerciseId)
        ELSE IF lookupKey \in DOMAIN suggestionCacheRef
        THEN MapSet(h, exerciseId,
                    [query |-> query, answered |-> TRUE,
                     result |-> pickBestExerciseSuggestion(query, suggestionCacheRef[lookupKey])])
        ELSE MapSet(h, exerciseId,
                    [query |-> query, answered |-> FALSE, result |-> <<>>])

\* the debounce timer of a slot fires: the timer entry is dropped and the lookup is issued
SuggestionDebounceFire(exerciseId) ==
    /\ phase = "mounted"
    /\ exerciseId \in DOMAIN suggestionDebounceTimeoutRef
    /\ suggestionDebounceTimeoutRef[exerciseId].remaining = 0
    /\ suggestionDebounceTimeoutRef' = MapDel(suggestionDebounceTimeoutRef, exerciseId)
    /\ FetchExerciseSuggestions(exerciseId, suggestionDebounceTimeoutRef[exerciseId].rawValue)
    /\ hist' = [hist EXCEPT
                  !.lookup = LookupIssued(@, exerciseId,
                                 suggestionDebounceTimeoutRef[exerciseId].rawValue)]
    /\ UNCHANGED <<storeVars, serverVars, insightFetches, saveFetch, phase, formVars,
                   exerciseInsightById, insightCacheRef, latestInsightLookupRef,
                   suggestionCacheRef, draftVars, submitVars>>

\* history: the answer of fetch f has arrived
LookupAnswered(h, f, result) ==
    IF f.exerciseId \in DOMAIN h /\ ~h[f.exerciseId].answered
                                 /\ h[f.exerciseId].query = f.query
    THEN MapSet(h, f.exerciseId, [h[f.exerciseId] EXCEPT !.answered = TRUE, !.result = result])
    ELSE h

\* payload.suggestions.map((item) => toSafeString(item).trim()).filter((item) => item !== "")
RECURSIVE SanitizeSuggestions(_)
SanitizeSuggestions(items) ==
    IF items = <<>> THEN <<>>
    ELSE IF Trim(Head(items)) = <<>> THEN SanitizeSuggestions(Tail(items))
    ELSE <<Trim(Head(items))>> \o SanitizeSuggestions(Tail(items))

\* fetchExerciseSuggestions after its await; ok = the fetch resolved with a 2xx body,
\* suggestions = the names of that body after the map and the filter
SuggestionAnswered(f, ok, suggestions) ==
    /\ f \in suggestionFetches
    /\ suggestionFetches' = suggestionFetches \ {f}
    /\ LET isLatest == /\ f.exerciseId \in DOMAIN latestSuggestionLookupRef
                       /\ latestSuggestionLookupRef[f.exerciseId] = f.lookupKey
           answer == IF ok THEN pickBestExerciseSuggestion(f.query, suggestions) ELSE <<>>
       IN  /\ suggestionCacheRef' =
                 IF ok THEN MapSet(suggestionCacheRef, f.lookupKey, suggestions)
                 ELSE suggestionCacheRef
           /\ exerciseSuggestionById' =
                 IF isLatest
                 THEN setExerciseSuggestion(exerciseSuggestionById, f.exerciseId, answer)
                 ELSE exerciseSuggestionById
           /\ hist' = [hist EXCEPT !.lookup = LookupAnswered(@, f, answer)]
    /\ UNCHANGED <<storeVars, serverVars, insightFetches, saveFetch, phase,
                   formVars, exerciseInsightById, insightCacheRef, latestInsightLookupRef,
                   latestSuggestionLookupRef, suggestionDebounceTimeoutRef, draftVars,
                   submitVars>>

\* the answer of GET /api/workouts/exercise-suggestions for the signed-in user
SuggestionResponse(f, ok) ==
    SuggestionAnswered(f, ok, SanitizeSuggestions(SuggestionsGET(ClientUser, f.query)))


(***************************************************************************)
(* Workout logger: insight lookup                                          *)
(***************************************************************************)

\* fetchExerciseInsight up to its await, without the look into the cache
FetchExerciseInsight_SkipsCache(exerciseId, exerciseName) ==
    LET lookupKey == normalizeExerciseLookupKey(exerciseName)
    IN  IF lookupKey = <<>>
        THEN /\ exerciseInsightById' =
                    MapSet(exerciseInsightById, exerciseId, [status |-> "idle"])
             /\ latestInsightLookupRef' = MapDel(latestInsightLookupRef, exerciseId)
             /\ UNCHANGED insightFetches
        ELSE /\ Cardinality(suggestionFetches) + Cardinality(insightFetches) < MaxInFlight
             /\ latestInsightLookupRef' = MapSet(latestInsightLookupRef, exerciseId, lookupKey)
             /\ exerciseInsightById' =
                    MapSet(exerciseInsightById, exerciseId,
                           [status |-> "loading", lookupKey |-> lookupKey])
             /\ insightFetches' = insightFetches \cup
                    {[exerciseId |-> exerciseId, exerciseName |-> exerciseName,
                      lookupKey |-> lookupKey]}

\* fetchExerciseInsight up to its await
FetchExerciseInsight(exerciseId, exerciseName) ==
    LET lookupKey == normalizeExerciseLookupKey(exerciseName)
    IN  IF lookupKey = <<>>
        THEN /\ exerciseInsightById' =
                    MapSet(exerciseInsightById, exerciseId, [status |-> "idle"])
             /\ latestInsightLookupRef' = MapDel(latestInsightLookupRef, exerciseId)
             /\ UNCHANGED insightFetches
        ELSE IF lookupKey \in DOMAIN insightCacheRef
        THEN /\ exerciseInsightById' =
                    MapSet(exerciseInsightById, exerciseId,
                           [status |-> "ready", lookupKey |-> lookupKey,
                            data |-> insightCacheRef[lookupKey]])
             /\ UNCHANGED <<latestInsightLookupRef, insightFetches>>
        ELSE /\ Cardinality(suggestionFetches) + Cardinality(insightFetches) < MaxInFlight
             /\ latestInsightLookupRef' = MapSet(latestInsightLookupRef, exerciseId, lookupKey)
             /\ exerciseInsightById' =
                    MapSet(exerciseInsightById, exerciseId,
                           [status |-> "loading", lookupKey |-> lookupKey])
             /\ insightFetches' = insightFetches \cup
                    {[exerciseId |-> exerciseId, exerciseName |-> exerciseName,
                      lookupKey |-> lookupKey]}

\* fetchExerciseInsight after its await, never taking its response up for the slot
InsightResponse_NeverLatest(f, ok) ==
    /\ f \in insightFetches
    /\ insightFetches' = insightFetches \ {f}
    /\ insightCacheRef' =
          IF ok THEN MapSet(insightCacheRef,
                            normalizeExerciseLookupKey(
                                InsightsGET(ClientUser, f.exerciseName).normalizedName),
                            InsightsGET(ClientUser, f.exerciseName))
          ELSE insightCacheRef
    /\ UNCHANGED hist
    /\ UNCHANGED <<storeVars, serverVars, suggestionFetches, saveFetch, phase,
                   formVars, exerciseInsightById, exerciseSuggestionById,
                   latestInsightLookupRef, suggestionCacheRef, latestSuggestionLookupRef,
                   suggestionDebounceTimeoutRef, draftVars, submitVars>>

\* fetchExerciseInsight after its await; ok = the fetch resolved with a 2xx insight body
InsightResponse(f, ok) ==
    /\ f \in insightFetches
    /\ insightFetches' = insightFetches \ {f}
    /\ LET payload == InsightsGET(ClientUser, f.exerciseName)
           responseLookupKey == normalizeExerciseLookupKey(payload.normalizedName)
           isLatest == /\ f.exerciseId \in DOMAIN latestInsightLookupRef
                       /\ latestInsightLookupRef[f.exerciseId] = f.lookupKey
       IN  /\ insightCacheRef' =
                 IF ok THEN MapSet(insightCacheRef, responseLookupKey, payload)
                 ELSE insightCacheRef
           /\ exerciseInsightById' =
                 IF ~isLatest THEN exerciseInsightById
                 ELSE IF ok
                 THEN MapSet(exerciseInsightById, f.exerciseId,
                             [status |-> "ready", lookupKey |-> f.lookupKey, data |-> payload])
                 ELSE MapSet(exerciseInsightById, f.exerciseId,
                             [status |-> "error", lookupKey |-> f.lookupKey,
                              error |-> "Unable to compare exercise."])
    /\ UNCHANGED hist
    /\ UNCHANGED <<storeVars, serverVars, suggestionFetches, saveFetch, phase,
                   formVars, exerciseSuggestionById, latestInsightLookupRef,
                   suggestionCacheRef, latestSuggestionLookupRef,
                   suggestionDebounceTimeoutRef, draftVars, submitVars>>

(***************************************************************************)
(* Workout logger: the exercise-name input                                 *)
(***************************************************************************)

\* handleExerciseNameChange, with the effects its re-render runs
HandleExerciseNameChange(exerciseId, rawValue) ==
    /\ phase = "mounted"
    /\ exerciseId \in ExerciseIdsOf(exercises)
    /\ rawValue # NameOf(exercises, exerciseId)
    /\ hist.edits < MaxEdits
    /\ exercises' = WithName(exercises, exerciseId, rawValue)
    /\ exerciseInsightById' = resetExerciseInsightState(exerciseInsightById, exerciseId)
    /\ QueueExerciseSuggestionLookup(exerciseId, rawValue)
    /\ FormEffects(title, performedAt, exercises')
    /\ hist' = [Mutated(hist) EXCEPT
                  !.edits = @ + 1,
                  !.editedSinceCommit = @ \cup {exerciseId},
                  !.lookup = IF Trim(rawValue) = <<>> THEN MapDel(@, exerciseId) ELSE @]
    /\ UNCHANGED <<storeVars, serverVars, netVars, phase, title, performedAt, idCounterRef,
                   insightCacheRef, latestInsightLookupRef, suggestionCacheRef,
                   storage, autosaveReadyRef, didRestoreDraft, lastDraftSavedAt, submitVars>>

\* handleExerciseNameBlur without the delete of the slot's latest suggestion lookup
HandleExerciseNameBlur_KeepsLatestLookup(exerciseId) ==
    /\ phase = "mounted"
    /\ exerciseId \in ExerciseIdsOf(exercises)
    /\ LET rawValue == NameOf(exercises, exerciseId)
           normalized == normalizeExerciseDisplayName(rawValue)
       IN  /\ suggestionDebounceTimeoutRef' =
                 clearPendingSuggestionLookup(suggestionDebounceTimeoutRef, exerciseId)
           /\ exerciseSuggestionById' =
                 setExerciseSuggestion(exerciseSuggestionById, exerciseId, <<>>)
           /\ UNCHANGED latestSuggestionLookupRef
           /\ exercises' = WithName(exercises, exerciseId, normalized)
           /\ FetchExerciseInsight(exerciseId, normalized)
           /\ FormEffects(title, performedAt, exercises')
           /\ hist' = [Mutated(hist) EXCEPT
                         !.editedSinceCommit = @ \ {exerciseId},
                         !.committed = MapSet(@, exerciseId,
                                              normalizeExerciseLookupKey(normalized)),
                         !.lookup = MapDel(@, exerciseId)]
    /\ UNCHANGED <<storeVars, serverVars, suggestionFetches, saveFetch, phase, title,
                   performedAt, idCounterRef, insightCacheRef, suggestionCacheRef,
                   storage, autosaveReadyRef, didRestoreDraft, lastDraftSavedAt, submitVars>>

\* handleExerciseNameBlur (event.target.value is the input's current text), with the
\* effects its re-render runs
HandleExerciseNameBlur(exerciseId) ==
    /\ phase = "mounted"
    /\ exerciseId \in ExerciseIdsOf(exercises)
    /\ LET rawValue == NameOf(exercises, exerciseId)
           normalized == normalizeExerciseDisplayName(rawValue)
       IN  /\ suggestionDebounceTimeoutRef' =
                 clearPendingSuggestionLookup(suggestionDebounceTimeoutRef, exerciseId)
           /\ exerciseSuggestionById' =
                 setExerciseSuggestion(exerciseSuggestionById, exerciseId, <<>>)
           /\ latestSuggestionLookupRef' = MapDel(latestSuggestionLookupRef, exerciseId)
           /\ exercises' = WithName(exercises, exerciseId, normalized)
           /\ FetchExerciseInsight(exerciseId, normalized)
           /\ FormEffects(title, performedAt, exercises')
           /\ hist' = [Mutated(hist) EXCEPT
                         !.editedSinceCommit = @ \ {exerciseId},
                         !.committed = MapSet(@, exerciseId,
                                              normalizeExerciseLookupKey(normalized)),
                         !.lookup = MapDel(@, exerciseId)]
    /\ UNCHANGED <<storeVars, serverVars, suggestionFetches, saveFetch, phase, title,
                   performedAt, idCounterRef, insightCacheRef, suggestionCacheRef,
                   storage, autosaveReadyRef, didRestoreDraft, lastDraftSavedAt, submitVars>>

\* handleExerciseNameKeyDown with Tab, or ArrowRight at the end of the text, while a
\* suggestion is displayed: clearPendingSuggestionLookup, then acceptExerciseSuggestion
AcceptExerciseSuggestion(exerciseId) ==
    /\ phase = "mounted"
    /\ exerciseId \in ExerciseIdsOf(exercises)
    /\ exerciseId \in DOMAIN exerciseSuggestionById
    /\ LET normalizedSuggestion ==
               normalizeExerciseDisplayName(exerciseSuggestionById[exerciseId])
       IN  /\ suggestionDebounceTimeoutRef' =
                 clearPendingSuggestionLookup(suggestionDebounceTimeoutRef, exerciseId)
           /\ exerciseSuggestionById' =
                 setExerciseSuggestion(exerciseSuggestionById, exerciseId, <<>>)
           /\ latestSuggestionLookupRef' = MapDel(latestSuggestionLookupRef, exerciseId)
           /\ exercises' = WithName(exercises, exerciseId, normalizedSuggestion)
           /\ FetchExerciseInsight(exerciseId, normalizedSuggestion)
           /\ FormEffects(title, performedAt, exercises')
           /\ hist' = [Mutated(hist) EXCEPT
                         !.editedSinceCommit = @ \ {exerciseId},
                         !.committed = MapSet(@, exerciseId,
                                              normalizeExerciseLookupKey(normalizedSuggestion)),
                         !.lookup = MapDel(@, exerciseId)]
    /\ UNCHANGED <<storeVars, serverVars, suggestionFetches, saveFetch, phase, title,
                   performedAt, idCounterRef, insightCacheRef, suggestionCacheRef,
                   storage, autosaveReadyRef, didRestoreDraft, lastDraftSavedAt, submitVars>>

\* addExercise, with the effects its re-render runs
AddExercise ==
    /\ phase = "mounted"
    /\ idCounterRef.exercise < MaxExerciseId
    /\ idCounterRef.set < MaxSetId
    /\ hist.edits < MaxEdits
    /\ idCounterRef' = [exercise |-> idCounterRef.exercise + 1, set |-> idCounterRef.set + 1]
    /\ exercises' = Append(exercises,
                           createExerciseDraft(ExerciseIds[idCounterRef.exercise + 1],
                                               SetIds[idCounterRef.set + 1]))
    /\ FormEffects(title, performedAt, exercises')
    /\ hist' = [Mutated(hist) EXCEPT !.edits = @ + 1]
    /\ UNCHANGED <<storeVars, serverVars, netVars, phase, title, performedAt, lookupVars,
                   storage, autosaveReadyRef, didRestoreDraft, lastDraftSavedAt, submitVars>>

\* array.filter(e => e.id !== id)
RECURSIVE WithoutId(_, _)
WithoutId(items, id) ==
    IF items = <<>> THEN <<>>
    ELSE IF Head(items).id = id THEN WithoutId(Tail(items), id)
    ELSE <<Head(items)>> \o WithoutId(Tail(items), id)

\* removeExercise (its button is disabled while one exercise is left), with the
\* effects its re-render runs
RemoveExercise(id) ==
    /\ phase = "mounted"
    /\ id \in ExerciseIdsOf(exercises)
    /\ Len(exercises) # 1
    /\ hist.edits < MaxEdits
    /\ exercises' = WithoutId(exercises, id)
    /\ exerciseInsightById' = MapDel(exerciseInsightById, id)
    /\ exerciseSuggestionById' = MapDel(exerciseSuggestionById, id)
    /\ suggestionDebounceTimeoutRef' = MapDel(suggestionDebounceTimeoutRef, id)
    /\ latestInsightLookupRef' = MapDel(latestInsightLookupRef, id)
    /\ latestSuggestionLookupRef' = MapDel(latestSuggestionLookupRef, id)
    /\ FormEffects(title, performedAt, exercises')
    /\ hist' = [Mutated(hist) EXCEPT
                  !.edits = @ + 1,
                  !.editedSinceCommit = @ \ {id},
                  !.committed = MapDel(@, id),
                  !.lookup = MapDel(@, id)]
    /\ UNCHANGED <<storeVars, serverVars, netVars, phase, title, performedAt, idCounterRef,
                   insightCacheRef, suggestionCacheRef, storage, autosaveReadyRef,
                   didRestoreDraft, lastDraftSavedAt, submitVars>>


(***************************************************************************)
(* Workout logger: mount, timers, autosave                                 *)
(***************************************************************************)

\* The component's first commit: the load effect, then the effects that depend on the
\* form, run again by the re-render that the hydrating setState calls cause.
Mount ==
    /\ phase = "initial"
    /\ phase' = "mounted"
    /\ LET storedDraft == parseStoredWorkoutDraft(storage)
           hydrated == hydrateExercisesFromSnapshot(storedDraft[1].exercises)
       IN  IF storedDraft # <<>>
           THEN /\ title' = storedDraft[1].title
                /\ performedAt' = storedDraft[1].performedAt
                /\ exercises' = hydrated.exercises
                /\ idCounterRef' = hydrated.counters
                /\ didRestoreDraft' = TRUE
                /\ lastDraftSavedAt' = storedDraft[1].savedAt
                /\ UNCHANGED storage
           ELSE /\ storage' = IF IsTruthy(storage) THEN NoItem ELSE storage
                /\ UNCHANGED <<formVars, didRestoreDraft, lastDraftSavedAt>>
    /\ autosaveReadyRef' = TRUE
    /\ latestDraftSnapshotRef' = <<createWorkoutDraftSnapshot(title', performedAt', exercises')>>
    /\ autosaveTimeout' = <<[remaining |-> WORKOUT_AUTOSAVE_DELAY_MS, title |-> title',
                             performedAt |-> performedAt', exercises |-> exercises']>>
    /\ UNCHANGED hist
    /\ UNCHANGED <<storeVars, serverVars, netVars, lookupVars, submitVars>>

\* persistWorkoutDraft: setItem either stores the payload or throws (caught)
PersistWorkoutDraft(snapshot, ok) ==
    storage' = IF ok THEN DraftItem(snapshot) ELSE storage

\* the autosave timer's callback
AutosaveFire(ok) ==
    /\ phase = "mounted"
    /\ autosaveTimeout # <<>>
    /\ autosaveTimeout[1].remaining = 0
    /\ LET snapshot == createWorkoutDraftSnapshot(autosaveTimeout[1].title,
                                                  autosaveTimeout[1].performedAt,
                                                  autosaveTimeout[1].exercises)
       IN  /\ latestDraftSnapshotRef' = <<snapshot>>
           /\ PersistWorkoutDraft(snapshot, ok)
    /\ lastDraftSavedAt' = IF ok THEN "iso" ELSE lastDraftSavedAt
    /\ autosaveTimeout' = <<>>
    /\ hist' = [hist EXCEPT !.burstWrites = @ + 1,
                            !.lastWriteOk = ok]
    /\ UNCHANGED <<storeVars, serverVars, netVars, phase, formVars, lookupVars,
                   autosaveReadyRef, didRestoreDraft, submitVars>>

TimerPending == autosaveTimeout # <<>> \/ DOMAIN suggestionDebounceTimeoutRef # {}

PendingDelays ==
    {suggestionDebounceTimeoutRef[id].remaining : id \in DOMAIN suggestionDebounceTimeoutRef}
    \cup (IF autosaveTimeout = <<>> THEN {} ELSE {autosaveTimeout[1].remaining})

\* the time until the next pending timer is due
NextDueIn == CHOOSE d \in PendingDelays : \A e \in PendingDelays : d <= e

\* d ms of time pass; a timer that is due runs before more time passes
Tick(d) ==
    /\ phase = "mounted"
    /\ d > 0
    /\ TimerPending => d <= NextDueIn
    /\ TimerPending \/ hist.sinceEdit < WORKOUT_AUTOSAVE_DELAY_MS
    /\ autosaveTimeout' =
          IF autosaveTimeout = <<>> THEN <<>>
          ELSE <<[autosaveTimeout[1] EXCEPT !.remaining = @ - d]>>
    /\ suggestionDebounceTimeoutRef' =
          [id \in DOMAIN suggestionDebounceTimeoutRef |->
              [suggestionDebounceTimeoutRef[id] EXCEPT !.remaining = @ - d]]
    /\ hist' = [hist EXCEPT
                  !.sinceEdit = IF @ + d > WORKOUT_AUTOSAVE_DELAY_MS
                                THEN WORKOUT_AUTOSAVE_DELAY_MS ELSE @ + d]
    /\ UNCHANGED <<storeVars, serverVars, netVars, phase, formVars, exerciseInsightById,
                   exerciseSuggestionById, insightCacheRef, latestInsightLookupRef,
                   suggestionCacheRef, latestSuggestionLookupRef, storage, autosaveReadyRef,
                   latestDraftSnapshotRef, didRestoreDraft, lastDraftSavedAt, submitVars>>

(***************************************************************************)
(* Initial states                                                          *)
(***************************************************************************)

Be == <<"B", "e">>

Bee == <<"B", "e", "e">>

\* a server store with some history of the signed-in user and of another user
SeedStore ==
    /\ exerciseCatalog =
          {[id |-> 1, userId |-> "u1", name |-> Be,
            normalizedName |-> normalizeExerciseName(Be), lastPerformedAt |-> 2],
           [id |-> 2, userId |-> "u1", name |-> Bee,
            normalizedName |-> normalizeExerciseName(Bee), lastPerformedAt |-> 1],
           [id |-> 3, userId |-> "u2", name |-> <<"B">>,
            normalizedName |-> normalizeExerciseName(<<"B">>), lastPerformedAt |-> 3]}
    /\ workoutLogs =
          {[id |-> 4, userId |-> "u1", title |-> "Push", performedAt |-> 2,
            totalWeightLb |-> Weight(500)],
           [id |-> 5, userId |-> "u1", title |-> "Pull", performedAt |-> 1,
            totalWeightLb |-> Weight(0)],
           [id |-> 6, userId |-> "u2", title |-> "Legs", performedAt |-> 3,
            totalWeightLb |-> Weight(180)]}
    /\ workoutExercises =
          {[id |-> 7, workoutLogId |-> 4, exerciseId |-> 1, name |-> Be,
            normalizedName |-> normalizeExerciseName(Be), order |-> 1],
           [id |-> 8, workoutLogId |-> 5, exerciseId |-> 2, name |-> Bee,
            normalizedName |-> normalizeExerciseName(Bee), order |-> 1],
           [id |-> 9, workoutLogId |-> 6, exerciseId |-> 3, name |-> <<"B">>,
            normalizedName |-> normalizeExerciseName(<<"B">>), order |-> 1]}
    /\ workoutSets =
          {[workoutExerciseId |-> 7, order |-> 1, reps |-> 5, weightLb |-> Weight(100)],
           [workoutExerciseId |-> 8, order |-> 1, reps |-> 8, weightLb |-> NullWeight],
           [workoutExerciseId |-> 9, order |-> 1, reps |-> 3, weightLb |-> Weight(60)]}
    /\ nextRowId = 10

InitServerIdle ==
    /\ posts = EmptyMap
    /\ legacyPrismaClient = FALSE

InitNet ==
    /\ suggestionFetches = {}
    /\ insightFetches = {}
    /\ saveFetch = <<>>

\* the component as constructed, before its effects run, over a given stored item
InitLogger(item) ==
    /\ phase = "initial"
    /\ storage = item
    /\ title = "Gym session"
    /\ performedAt = NowLocal
    /\ exercises = <<createExerciseDraft(ExerciseIds[1], SetIds[1])>>
    /\ idCounterRef = [exercise |-> 1, set |-> 1]
    /\ exerciseInsightById = EmptyMap
    /\ exerciseSuggestionById = EmptyMap
    /\ insightCacheRef = EmptyMap
    /\ latestInsightLookupRef = EmptyMap
    /\ suggestionCacheRef = EmptyMap
    /\ latestSuggestionLookupRef = EmptyMap
    /\ suggestionDebounceTimeoutRef = EmptyMap
    /\ autosaveReadyRef = FALSE
    /\ latestDraftSnapshotRef = <<>>
    /\ autosaveTimeout = <<>>
    /\ formError = ""
    /\ isSaving = FALSE
    /\ didRestoreDraft = FALSE
    /\ lastDraftSavedAt = ""
    /\ navigated = FALSE

HistAtStart ==
    [edits |-> 0, lookup |-> EmptyMap,
     committed |-> EmptyMap, editedSinceCommit |-> {}, sinceEdit |-> 0,
     edited |-> FALSE, burstWrites |-> 0, burstEdits |-> 0, hidden |-> FALSE, lastWriteOk |-> TRUE,
     savedOk |-> FALSE, faults |-> 0, opens |-> 1, openedEmpty |-> FALSE]

InitHist == hist = HistAtStart

(***************************************************************************)
(* SpecLookup: the logger's name inputs, suggestion and insight lookups    *)
(***************************************************************************)

InitLookup == SeedStore /\ InitServerIdle /\ InitNet /\ InitLogger(NoItem) /\ InitHist

NextLookup ==
    \/ Mount
    \/ \E id \in ExerciseIdsOf(exercises), rawValue \in TypedNames :
          HandleExerciseNameChange(id, rawValue)
    \/ \E id \in ExerciseIdsOf(exercises) : HandleExerciseNameBlur(id)
    \/ \E id \in ExerciseIdsOf(exercises) : AcceptExerciseSuggestion(id)
    \/ AddExercise
    \/ \E id \in ExerciseIdsOf(exercises) : RemoveExercise(id)
    \/ \E id \in DOMAIN suggestionDebounceTimeoutRef : SuggestionDebounceFire(id)
    \/ \E f \in suggestionFetches, ok \in BOOLEAN : SuggestionResponse(f, ok)
    \/ \E f \in insightFetches, ok \in BOOLEAN : InsightResponse(f, ok)
    \/ AutosaveFire(FALSE)
    \/ TimerPending /\ Tick(NextDueIn)

SpecLookup == InitLookup /\ [][NextLookup]_vars


(***************************************************************************)
(* Claims about the lookups (checked under SpecLookup)                     *)
(***************************************************************************)

\* the suggestion displayed for a slot; <<>> when none is
DisplayedSuggestion(id) ==
    IF id \in DOMAIN exerciseSuggestionById THEN exerciseSuggestionById[id] ELSE <<>>

\* the insight status of a slot; a slot without an entry renders as idle
InsightStatus(id) ==
    IF id \in DOMAIN exerciseInsightById THEN exerciseInsightById[id].status ELSE "idle"

\* C1: once the most recently issued suggestion lookup of a slot has been answered
\* (from the cache, or by its own network response), the slot displays that lookup's
\* suggestion: no response to an earlier lookup of the slot replaces it.
C1_LastIssuedLookupWins ==
    \A id \in DOMAIN hist.lookup :
        hist.lookup[id].answered => DisplayedSuggestion(id) = hist.lookup[id].result

\* C2: from an edit of a slot's name until the name is committed again, the slot's
\* insight state is idle.
C2_IdleFromEditUntilCommit ==
    \A id \in hist.editedSinceCommit : InsightStatus(id) = "idle"

\* C3: a slot whose insight state is ready holds the insight of the normalized key of
\* the name most recently committed in that slot.
C3_ReadyIsLatestCommit ==
    \A id \in DOMAIN exerciseInsightById :
        exerciseInsightById[id].status = "ready" =>
            /\ id \in DOMAIN hist.committed
            /\ exerciseInsightById[id].data.normalizedName = hist.committed[id]


(***************************************************************************)
(* POST /api/workouts: payload validation                                  *)
(***************************************************************************)

\* JSON values of a request body
JNull == [t |-> "null", n |-> 0, s |-> <<>>]

JNum(v) == [t |-> "num", n |-> v, s |-> <<>>]

JStr(chars) == [t |-> "str", n |-> 0, s |-> chars]

DigitValue(c) ==
    CASE c = "0" -> 0 [] c = "1" -> 1 [] c = "2" -> 2 [] c = "3" -> 3 [] c = "4" -> 4
      [] c = "5" -> 5 [] c = "6" -> 6 [] c = "7" -> 7 [] c = "8" -> 8 [] c = "9" -> 9

\* the value of the longest prefix of digits, given the value read so far
RECURSIVE DigitsPrefix(_, _)
DigitsPrefix(s, acc) ==
    IF s = <<>> \/ Head(s) \notin Digits THEN acc
    ELSE DigitsPrefix(Tail(s), acc * 10 + DigitValue(Head(s)))

\* Number.parseInt(text, 10): [nan, v]
ParseInt10(text) ==
    LET t == TrimStart(text)
        signed == t # <<>> /\ Head(t) \in {"-", "+"}
        body == IF signed THEN Tail(t) ELSE t
        magnitude == DigitsPrefix(body, 0)
    IN  IF body = <<>> \/ Head(body) \notin Digits THEN [nan |-> TRUE, v |-> 0]
        ELSE [nan |-> FALSE,
              v |-> IF signed /\ Head(t) = "-" THEN 0 - magnitude ELSE magnitude]

\* part_004 toOptionalTrimmedString; <<>> stands for null
toOptionalTrimmedString(value) == IF value.t # "str" THEN <<>> ELSE Trim(value.s)

\* part_004 parsePositiveInt; 0 stands for null (the caller tests !reps)
parsePositiveInt(value) ==
    IF value.t = "num" /\ value.n > 0 THEN value.n
    ELSE IF value.t = "str" /\ Trim(value.s) # <<>>
              /\ ~ParseInt10(Trim(value.s)).nan /\ ParseInt10(Trim(value.s)).v > 0
         THEN ParseInt10(Trim(value.s)).v
    ELSE 0

AllDigits(s) == \A i \in 1..Len(s) : s[i] \in Digits

\* /^\d+(\.\d*)?$/ or /^\.\d+$/
IsDecimalText(raw) ==
    LET dot == IndexOf(raw, <<".">>)
    IN  IF dot = -1 THEN raw # <<>> /\ AllDigits(raw)
        ELSE /\ AllDigits(SubSeq(raw, 1, dot))
             /\ AllDigits(SubSeq(raw, dot + 2, Len(raw)))
             /\ dot > 0 \/ Len(raw) > 1

\* the stored decimal, in tenths of a pound (the model's inputs carry at most one
\* fractional digit)
DecimalTenths(raw) ==
    LET dot == IndexOf(raw, <<".">>)
        whole == IF dot = -1 THEN raw ELSE SubSeq(raw, 1, dot)
        frac == IF dot = -1 THEN <<>> ELSE SubSeq(raw, dot + 2, Len(raw))
    IN  DigitsPrefix(whole, 0) * 10 + (IF frac = <<>> THEN 0 ELSE DigitValue(frac[1]))

\* part_004 parseOptionalDecimalString
parseOptionalDecimalString(value) ==
    IF value.t = "null" THEN NullWeight
    ELSE IF value.t = "num"
         THEN (IF value.n >= 0 THEN Weight(value.n * 10) ELSE NullWeight)
    ELSE LET raw == Trim(value.s)
         IN  IF raw = <<>> \/ ~IsDecimalText(raw) THEN NullWeight
             ELSE Weight(DecimalTenths(raw))

NowServer == 12

\* workout-utils toIsoFromLocalDateTime, then new Date(...): a timestamp
toIsoFromLocalDateTime(value) ==
    CASE value = "2026-01-01T10:00" -> 10
      [] value = "2026-01-02T09:30" -> 11
      [] OTHER -> NowServer

\* the loop of normalizePayload over one exercise's sets
RECURSIVE NormalizeSets(_)
NormalizeSets(rawSets) ==
    IF rawSets = <<>> THEN <<>>
    ELSE LET reps == parsePositiveInt(Head(rawSets).reps)
         IN  IF reps = 0 THEN NormalizeSets(Tail(rawSets))
             ELSE <<[reps |-> reps,
                     weightLb |-> parseOptionalDecimalString(Head(rawSets).weightLb)]>>
                  \o NormalizeSets(Tail(rawSets))

\* the loop of normalizePayload without its check that an exercise has a valid set
RECURSIVE NormalizeExercises_AcceptsNoSets(_, _)
NormalizeExercises_AcceptsNoSets(rawExercises, done) ==
    IF rawExercises = <<>> THEN [error |-> "", exercises |-> done]
    ELSE LET item == Head(rawExercises)
             name == toOptionalTrimmedString(item.name)
         IN  IF name = <<>> THEN NormalizeExercises_AcceptsNoSets(Tail(rawExercises), done)
             ELSE IF ~item.hasSets
                  THEN [error |-> "Exercise is missing sets.", exercises |-> <<>>]
             ELSE NormalizeExercises_AcceptsNoSets(
                      Tail(rawExercises),
                      Append(done, [name |-> name,
                                    normalizedName |-> normalizeExerciseName(name),
                                    sets |-> NormalizeSets(item.sets)]))

\* the loop of normalizePayload over the exercises: [error, exercises]
RECURSIVE NormalizeExercises(_, _)
NormalizeExercises(rawExercises, done) ==
    IF rawExercises = <<>> THEN [error |-> "", exercises |-> done]
    ELSE LET item == Head(rawExercises)
             name == toOptionalTrimmedString(item.name)
             sets == NormalizeSets(item.sets)
         IN  IF name = <<>> THEN NormalizeExercises(Tail(rawExercises), done)
             ELSE IF ~item.hasSets
                  THEN [error |-> "Exercise is missing sets.", exercises |-> <<>>]
             ELSE IF sets = <<>>
                  THEN [error |-> "Exercise needs at least one valid set with reps.",
                        exercises |-> <<>>]
             ELSE NormalizeExercises(Tail(rawExercises),
                                 Append(done, [name |-> name,
                                               normalizedName |-> normalizeExerciseName(name),
                                               sets |-> sets]))

\* part_004 normalizePayload: [error, value]; error = "" when the payload is accepted
normalizePayload(raw) ==
    LET parsed == NormalizeExercises(raw.exercises, <<>>)
        value == [title |-> IF raw.title = "" THEN "Untitled workout" ELSE raw.title,
                  performedAt |-> toIsoFromLocalDateTime(raw.performedAt),
                  exercises |-> parsed.exercises]
    IN  IF ~raw.hasExercises THEN [error |-> "Add at least one exercise.", value |-> value]
        ELSE IF parsed.error # "" THEN [error |-> parsed.error, value |-> value]
        ELSE IF parsed.exercises = <<>>
             THEN [error |-> "Add at least one exercise with a name.", value |-> value]
        ELSE [error |-> "", value |-> value]

\* part_004 computeWorkoutTotalWeightLb, in tenths
computeWorkoutTotalWeightLb(payload) ==
    SumSeq([i \in 1..Len(payload.exercises) |->
              SumSeq([j \in 1..Len(payload.exercises[i].sets) |->
                        IF payload.exercises[i].sets[j].weightLb.isNull THEN 0
                        ELSE payload.exercises[i].sets[j].weightLb.v
                             * payload.exercises[i].sets[j].reps])])


(***************************************************************************)
(* POST /api/workouts: the handler, one database call per step             *)
(***************************************************************************)

MaxPosts == 2

MaxFaults == 2

\* the catch block of POST
ErrorStatus(kind) ==
    CASE kind = "P2002" -> 409
      [] kind = "P2021" -> 503
      [] kind = "Initialization" -> 503
      [] OTHER -> 500

\* the handler up to its first database write: session check, body, normalizePayload
Received(origin, userId, body, parsed) ==
    [origin |-> origin, userId |-> userId, body |-> body, payload |-> parsed.value,
     pc |-> IF userId = "" \/ parsed.error # "" THEN "responded" ELSE "createLog",
     i |-> 1, j |-> 1, logId |-> 0, exerciseRecordId |-> 0, workoutExerciseId |-> 0,
     error |-> "", deleteError |-> "", thrown |-> "",
     status |-> IF userId = "" THEN 401 ELSE IF parsed.error # "" THEN 400 ELSE 0,
     writes |-> 0]

ReceivePost(origin, userId, body) == Received(origin, userId, body, normalizePayload(body))

\* the response reaches the logger's fetch when the request came from it
Deliver(post) ==
    IF post.origin = "client" /\ post.pc = "responded"
    THEN <<[state |-> "answered", body |-> post.body, status |-> post.status]>>
    ELSE saveFetch

\* a call may throw only while the fault budget lasts
MayHappen(outcome) == outcome = "ok" \/ hist.faults < MaxFaults

Counted(outcome) == IF outcome = "ok" THEN hist ELSE [hist EXCEPT !.faults = @ + 1]

\* the handler of request r moves to the state post
Step(r, post, outcome) ==
    /\ posts' = [posts EXCEPT ![r] = post]
    /\ saveFetch' = Deliver(post)
    /\ hist' = Counted(outcome)

\* a request sent to the route by something other than the logger
DirectPost(userId, body) ==
    /\ Cardinality(DOMAIN posts) < MaxPosts
    /\ posts' = MapSet(posts, Cardinality(DOMAIN posts) + 1,
                       ReceivePost("direct", userId, body))
    /\ UNCHANGED <<storeVars, legacyPrismaClient, netVars, phase, formVars,
                   lookupVars, draftVars, submitVars, hist>>

\* the logger's POST reaches the route
PostArrives ==
    /\ saveFetch # <<>>
    /\ saveFetch[1].state = "sent"
    /\ Cardinality(DOMAIN posts) < MaxPosts
    /\ posts' = MapSet(posts, Cardinality(DOMAIN posts) + 1,
                       ReceivePost("client", ClientUser, saveFetch[1].body))
    /\ saveFetch' = IF posts'[Cardinality(DOMAIN posts) + 1].pc = "responded"
                    THEN Deliver(posts'[Cardinality(DOMAIN posts) + 1])
                    ELSE <<[saveFetch[1] EXCEPT !.state = "handling"]>>
    /\ UNCHANGED <<storeVars, legacyPrismaClient, suggestionFetches, insightFetches,
                   phase, formVars, lookupVars, draftVars, submitVars, hist>>

\* prisma.workoutLog.create; a client without totalWeightLb rejects the first call
\* before it reaches the database and the second call omits the column
CreateLog(r, outcome) ==
    /\ posts[r].pc = "createLog"
    /\ MayHappen(outcome)
    /\ LET post == posts[r]
           row == [id |-> nextRowId, userId |-> post.userId, title |-> post.payload.title,
                   performedAt |-> post.payload.performedAt,
                   totalWeightLb |-> IF legacyPrismaClient THEN NullWeight
                                     ELSE Weight(computeWorkoutTotalWeightLb(post.payload))]
       IN  IF outcome = "ok"
           THEN /\ workoutLogs' = workoutLogs \cup {row}
                /\ nextRowId' = nextRowId + 1
                /\ Step(r, [post EXCEPT !.pc = "upsert", !.logId = row.id,
                                        !.writes = @ + 1], outcome)
           ELSE /\ UNCHANGED <<workoutLogs, nextRowId>>
                /\ Step(r, [post EXCEPT !.pc = "responded", !.error = outcome,
                                        !.thrown = outcome,
                                        !.status = ErrorStatus(outcome),
                                        !.writes = @ + 1], outcome)
    /\ UNCHANGED <<workoutExercises, workoutSets, exerciseCatalog,
                   legacyPrismaClient, suggestionFetches, insightFetches, phase, formVars,
                   lookupVars, draftVars, submitVars>>

\* the catch of persistWorkout is entered with the log row created
Thrown(post, outcome) ==
    [post EXCEPT !.pc = "compensate", !.error = outcome, !.writes = @ + 1]

\* prisma.exercise.upsert
UpsertExercise(r, outcome) ==
    /\ posts[r].pc = "upsert"
    /\ MayHappen(outcome)
    /\ LET post == posts[r]
           input == post.payload.exercises[post.i]
           existing == {e \in exerciseCatalog :
                          e.userId = post.userId /\ e.normalizedName = input.normalizedName}
           entry == IF existing = {}
                    THEN [id |-> nextRowId, userId |-> post.userId, name |-> input.name,
                          normalizedName |-> input.normalizedName,
                          lastPerformedAt |-> post.payload.performedAt]
                    ELSE [(CHOOSE e \in existing : TRUE) EXCEPT !.name = input.name]
       IN  IF outcome = "ok"
           THEN /\ exerciseCatalog' = (exerciseCatalog \ existing) \cup {entry}
                /\ nextRowId' = IF existing = {} THEN nextRowId + 1 ELSE nextRowId
                /\ Step(r, [post EXCEPT !.pc = "updateMany", !.exerciseRecordId = entry.id,
                                        !.writes = @ + 1], outcome)
           ELSE /\ UNCHANGED <<exerciseCatalog, nextRowId>>
                /\ Step(r, Thrown(post, outcome), outcome)
    /\ UNCHANGED <<workoutLogs, workoutExercises, workoutSets, legacyPrismaClient,
                   suggestionFetches, insightFetches, phase, formVars, lookupVars,
                   draftVars, submitVars>>

\* prisma.exercise.updateMany
UpdateLastPerformedAt(r, outcome) ==
    /\ posts[r].pc = "updateMany"
    /\ MayHappen(outcome)
    /\ LET post == posts[r]
           Touched(e) == e.id = post.exerciseRecordId
                         /\ e.lastPerformedAt < post.payload.performedAt
       IN  IF outcome = "ok"
           THEN /\ exerciseCatalog' =
                      {IF Touched(e)
                       THEN [e EXCEPT !.lastPerformedAt = post.payload.performedAt]
                       ELSE e : e \in exerciseCatalog}
                /\ Step(r, [post EXCEPT !.pc = "createExercise", !.writes = @ + 1], outcome)
           ELSE /\ UNCHANGED exerciseCatalog
                /\ Step(r, Thrown(post, outcome), outcome)
    /\ UNCHANGED <<workoutLogs, workoutExercises, workoutSets, nextRowId,
                   legacyPrismaClient, suggestionFetches, insightFetches, phase, formVars,
                   lookupVars, draftVars, submitVars>>

\* prisma.workoutExercise.create
CreateWorkoutExercise(r, outcome) ==
    /\ posts[r].pc = "createExercise"
    /\ MayHappen(outcome)
    /\ LET post == posts[r]
           input == post.payload.exercises[post.i]
           row == [id |-> nextRowId, workoutLogId |-> post.logId,
                   exerciseId |-> post.exerciseRecordId, name |-> input.name,
                   normalizedName |-> input.normalizedName, order |-> post.i]
       IN  IF outcome = "ok"
           THEN /\ workoutExercises' = workoutExercises \cup {row}
                /\ nextRowId' = nextRowId + 1
                /\ Step(r, [post EXCEPT !.pc = "createSets", !.workoutExerciseId = row.id,
                                        !.writes = @ + 1], outcome)
           ELSE /\ UNCHANGED <<workoutExercises, nextRowId>>
                /\ Step(r, Thrown(post, outcome), outcome)
    /\ UNCHANGED <<workoutLogs, workoutSets, exerciseCatalog, legacyPrismaClient,
                   suggestionFetches, insightFetches, phase, formVars, lookupVars,
                   draftVars, submitVars>>

\* the end of one iteration of the loop over payload.exercises
NextExercise(post) ==
    IF post.i < Len(post.payload.exercises)
    THEN [post EXCEPT !.pc = "upsert", !.i = @ + 1, !.j = 1, !.writes = @ + 1]
    ELSE [post EXCEPT !.pc = "responded", !.status = 201, !.writes = @ + 1]

SetRow(post, j) ==
    [workoutExerciseId |-> post.workoutExerciseId, order |-> j,
     reps |-> post.payload.exercises[post.i].sets[j].reps,
     weightLb |-> post.payload.exercises[post.i].sets[j].weightLb]

\* prisma.workoutSet.createMany; a client without weightLb rejects the call before it
\* reaches the database and insertWorkoutSetsFallback takes over
CreateSets(r, outcome) ==
    /\ posts[r].pc = "createSets"
    /\ ~legacyPrismaClient
    /\ MayHappen(outcome)
    /\ LET post == posts[r]
       IN  IF outcome = "ok"
           THEN /\ workoutSets' = workoutSets \cup
                      {SetRow(post, j) : j \in 1..Len(post.payload.exercises[post.i].sets)}
                /\ Step(r, NextExercise(post), outcome)
           ELSE /\ UNCHANGED workoutSets
                /\ Step(r, Thrown(post, outcome), outcome)
    /\ UNCHANGED <<workoutLogs, workoutExercises, exerciseCatalog, nextRowId,
                   legacyPrismaClient, suggestionFetches, insightFetches, phase, formVars,
                   lookupVars, draftVars, submitVars>>

\* detectWorkoutSetWeightColumn: a read of information_schema
DetectWorkoutSetWeightColumn(r, outcome) ==
    /\ posts[r].pc = "createSets"
    /\ legacyPrismaClient
    /\ MayHappen(outcome)
    /\ Step(r, IF outcome = "ok" THEN [posts[r] EXCEPT !.pc = "insertSet"]
               ELSE [Thrown(posts[r], outcome) EXCEPT !.writes = posts[r].writes], outcome)
    /\ UNCHANGED <<storeVars, legacyPrismaClient, suggestionFetches, insightFetches,
                   phase, formVars, lookupVars, draftVars, submitVars>>

\* one $executeRawUnsafe of insertWorkoutSetsFallback
InsertSetFallback(r, outcome) ==
    /\ posts[r].pc = "insertSet"
    /\ MayHappen(outcome)
    /\ LET post == posts[r]
           last == post.j = Len(post.payload.exercises[post.i].sets)
       IN  IF outcome = "ok"
           THEN /\ workoutSets' = workoutSets \cup {SetRow(post, post.j)}
                /\ Step(r, IF last THEN NextExercise(post)
                           ELSE [post EXCEPT !.j = @ + 1, !.writes = @ + 1], outcome)
           ELSE /\ UNCHANGED workoutSets
                /\ Step(r, Thrown(post, outcome), outcome)
    /\ UNCHANGED <<workoutLogs, workoutExercises, exerciseCatalog, nextRowId,
                   legacyPrismaClient, suggestionFetches, insightFetches, phase, formVars,
                   lookupVars, draftVars, submitVars>>

\* deleting a WorkoutLog row removes its WorkoutExercise and WorkoutSet rows with it
DeleteWorkoutLog(id) ==
    LET gone == {x.id : x \in {y \in workoutExercises : y.workoutLogId = id}}
    IN  /\ workoutLogs' = {l \in workoutLogs : l.id # id}
        /\ workoutExercises' = {x \in workoutExercises : x.workoutLogId # id}
        /\ workoutSets' = {s \in workoutSets : s.workoutExerciseId \notin gone}

\* Compensate with the delete's rejection left uncaught: it replaces the error in flight
Compensate_DeleteErrorEscapes(r, outcome) ==
    /\ posts[r].pc = "compensate"
    /\ MayHappen(outcome)
    /\ IF outcome = "ok" THEN DeleteWorkoutLog(posts[r].logId)
       ELSE UNCHANGED <<workoutLogs, workoutExercises, workoutSets>>
    /\ Step(r, [posts[r] EXCEPT
                   !.pc = "responded",
                   !.deleteError = IF outcome = "ok" THEN "" ELSE outcome,
                   !.thrown = IF outcome = "ok" THEN posts[r].error ELSE outcome,
                   !.status = ErrorStatus(IF outcome = "ok" THEN posts[r].error
                                          ELSE outcome)], outcome)
    /\ UNCHANGED <<exerciseCatalog, nextRowId, legacyPrismaClient,
                   suggestionFetches, insightFetches, phase, formVars, lookupVars,
                   draftVars, submitVars>>

\* the catch of persistWorkout: prisma.workoutLog.delete(...).catch(() => undefined)
\* swallows the delete's rejection, then `throw error` rethrows the error that was
\* caught and POST maps what persistWorkout threw to a status
Compensate(r, outcome) ==
    /\ posts[r].pc = "compensate"
    /\ MayHappen(outcome)
    /\ IF outcome = "ok" THEN DeleteWorkoutLog(posts[r].logId)
       ELSE UNCHANGED <<workoutLogs, workoutExercises, workoutSets>>
    /\ Step(r, [posts[r] EXCEPT
                   !.pc = "responded",
                   !.deleteError = IF outcome = "ok" THEN "" ELSE outcome,
                   !.thrown = posts[r].error,
                   !.status = ErrorStatus(posts[r].error)], outcome)
    /\ UNCHANGED <<exerciseCatalog, nextRowId, legacyPrismaClient,
                   suggestionFetches, insightFetches, phase, formVars, lookupVars,
                   draftVars, submitVars>>

(***************************************************************************)
(* Concurrent readers                                                      *)
(***************************************************************************)

\* app/workouts/[workoutId]/page.tsx: what the findFirst with its nested exercises
\* and sets returns for a workout of the user
ReadWorkoutDetail(userId, workoutId) ==
    LET rows == {x \in workoutExercises : x.workoutLogId = workoutId}
        sets == {s \in workoutSets : \E x \in rows : s.workoutExerciseId = x.id}
    IN  [found |-> \E l \in workoutLogs : l.id = workoutId /\ l.userId = userId,
         workoutId |-> workoutId,
         exerciseCount |-> Cardinality(rows),
         setCount |-> Cardinality(sets)]

(***************************************************************************)
(* Workout logger: title, date and set inputs                              *)
(***************************************************************************)

Titles == {"Gym session", "Push"}

RepsTyped == {<<>>, <<"5">>}

WeightTyped == {<<>>, <<"2", ",", "5">>}

SetIdsOf(exs, exerciseId) ==
    UNION {{exs[i].sets[j].id : j \in 1..Len(exs[i].sets)} :
             i \in {k \in 1..Len(exs) : exs[k].id = exerciseId}}

\* updateExercise with an updater that replaces the sets of the exercise
WithSets(exs, id, sets) ==
    [i \in 1..Len(exs) |-> IF exs[i].id = id THEN [exs[i] EXCEPT !.sets = sets] ELSE exs[i]]

\* the sets of the exercise with the given id
SetsOfExercise(exs, id) == exs[CHOOSE i \in 1..Len(exs) : exs[i].id = id].sets

\* a form mutation other than a name edit: the new form, then the effects
\* that depend on it
FormMutation(t, p, exs) ==
    /\ phase = "mounted"
    /\ hist.edits < MaxFormEdits
    /\ title' = t
    /\ performedAt' = p
    /\ exercises' = exs
    /\ FormEffects(t, p, exs)
    /\ hist' = [Mutated(hist) EXCEPT !.edits = @ + 1]
    /\ UNCHANGED <<storeVars, serverVars, netVars, phase, lookupVars, storage,
                   autosaveReadyRef, didRestoreDraft, lastDraftSavedAt, submitVars>>

\* the title input's onChange
SetTitle(value) ==
    /\ value # title
    /\ FormMutation(value, performedAt, exercises)
    /\ UNCHANGED idCounterRef

\* the DatePicker's onChange
SetPerformedAt(value) ==
    /\ value # performedAt
    /\ FormMutation(title, value, exercises)
    /\ UNCHANGED idCounterRef

\* updateSet
updateSet(exs, exerciseId, setId, field, value) ==
    LET sets == SetsOfExercise(exs, exerciseId)
    IN  WithSets(exs, exerciseId,
                 [j \in 1..Len(sets) |->
                     IF sets[j].id = setId
                     THEN (IF field = "reps" THEN [sets[j] EXCEPT !.reps = value]
                           ELSE [sets[j] EXCEPT !.weightLb = value])
                     ELSE sets[j]])

\* the reps input's onChange
UpdateSetReps(exerciseId, setId, typed) ==
    /\ FormMutation(title, performedAt,
                    updateSet(exercises, exerciseId, setId, "reps", sanitizeRepsInput(typed)))
    /\ UNCHANGED idCounterRef

\* the weight input's onChange
UpdateSetWeight(exerciseId, setId, typed) ==
    /\ FormMutation(title, performedAt,
                    updateSet(exercises, exerciseId, setId, "weightLb",
                              sanitizeWeightInput(typed)))
    /\ UNCHANGED idCounterRef

\* addSet
AddSet(exerciseId) ==
    /\ idCounterRef.set < MaxSetId
    /\ idCounterRef' = [idCounterRef EXCEPT !.set = @ + 1]
    /\ FormMutation(title, performedAt,
                    WithSets(exercises, exerciseId,
                             Append(SetsOfExercise(exercises, exerciseId),
                                    createSetDraft(SetIds[idCounterRef.set + 1]))))

\* removeSet (the button is disabled on an exercise's only set)
RemoveSet(exerciseId, setId) ==
    /\ \E i \in 1..Len(exercises) : exercises[i].id = exerciseId /\ Len(exercises[i].sets) # 1
    /\ FormMutation(title, performedAt,
                    WithSets(exercises, exerciseId,
                             WithoutId(SetsOfExercise(exercises, exerciseId), setId)))
    /\ UNCHANGED idCounterRef

(***************************************************************************)
(* Workout logger: the live comparison                                     *)
(***************************************************************************)

\* workout-logger.tsx toOptionalPositiveNumber over the texts a weight input can hold
\* (digits and one dot): Number(trimmed) in tenths, NullWeight for null
toOptionalPositiveNumber(value) ==
    LET trimmed == Trim(value)
    IN  IF trimmed = <<>> \/ ~IsDecimalText(trimmed) THEN NullWeight
        ELSE Weight(DecimalTenths(trimmed))

\* FoldDraftSets without the `continue` on reps that are no positive integer
RECURSIVE FoldDraftSets_KeepsSetsWithoutReps(_, _)
FoldDraftSets_KeepsSetsWithoutReps(summary, sets) ==
    IF sets = <<>> THEN summary
    ELSE LET setItem == Head(sets)
             parsed == ParseInt10(Trim(setItem.reps))
             reps == IF parsed.nan \/ parsed.v <= 0 THEN 0 ELSE parsed.v
             weight == toOptionalPositiveNumber(setItem.weightLb)
             counted == [summary EXCEPT !.setCount = @ + 1, !.totalReps = @ + reps]
         IN  FoldDraftSets_KeepsSetsWithoutReps(
                 IF weight.isNull THEN counted
                 ELSE [counted EXCEPT
                         !.totalVolume = @ + weight.v * reps,
                         !.bestWeight = IF @.isNull THEN weight
                                        ELSE Weight(Max2(@.v, weight.v))],
                 Tail(sets))

\* the loop of summarizeDraftSets over exercise.sets
RECURSIVE FoldDraftSets(_, _)
FoldDraftSets(summary, sets) ==
    IF sets = <<>> THEN summary
    ELSE LET setItem == Head(sets)
             reps == ParseInt10(Trim(setItem.reps))
             weight == toOptionalPositiveNumber(setItem.weightLb)
             counted == [summary EXCEPT !.setCount = @ + 1, !.totalReps = @ + reps.v]
         IN  FoldDraftSets(
                 IF reps.nan \/ reps.v <= 0 THEN summary
                 ELSE IF weight.isNull THEN counted
                 ELSE [counted EXCEPT
                         !.totalVolume = @ + weight.v * reps.v,
                         !.bestWeight = IF @.isNull THEN weight
                                        ELSE Weight(Max2(@.v, weight.v))],
                 Tail(sets))

\* workout-logger.tsx summarizeDraftSets
summarizeDraftSets(exercise) ==
    LET summary == FoldDraftSets([setCount |-> 0, totalReps |-> 0, totalVolume |-> 0,
                                  bestWeight |-> NullWeight],
                                 exercise.sets)
    IN  [summary EXCEPT !.totalVolume = MathRound(@)]

\* what the render shows under an exercise's name input: nothing, a hint, or the
\* comparison card with its two deltas
ComparisonRender(exercise) ==
    LET insightState == exerciseInsightById[exercise.id]
        none == [shown |-> "nothing", volumeDelta |-> 0, bestWeightDelta |-> 0]
    IN  IF exercise.id \notin DOMAIN exerciseInsightById \/ insightState.status = "idle"
        THEN none
        ELSE IF insightState.status = "loading" THEN [none EXCEPT !.shown = "comparing"]
        ELSE IF insightState.status = "error" THEN [none EXCEPT !.shown = "could not load"]
        ELSE IF ~insightState.data.hasLastSession
        THEN [none EXCEPT !.shown = "no previous logs"]
        ELSE LET lastSession == insightState.data.lastSession[1]
                 draftSummary == summarizeDraftSets(exercise)
                 lastBestWeight == IF lastSession.bestWeight.isNull THEN 0
                                   ELSE lastSession.bestWeight.v
                 draftBestWeight == IF draftSummary.bestWeight.isNull THEN 0
                                    ELSE draftSummary.bestWeight.v
             IN  [shown |-> "comparison",
                  volumeDelta |-> draftSummary.totalVolume - lastSession.totalVolume,
                  bestWeightDelta |-> draftBestWeight - lastBestWeight]

(***************************************************************************)
(* Workout logger: page hide, submit, unmount                              *)
(***************************************************************************)

\* handlePageHide
PageHide(ok) ==
    /\ phase = "mounted"
    /\ IF autosaveReadyRef /\ latestDraftSnapshotRef # <<>>
       THEN /\ PersistWorkoutDraft(latestDraftSnapshotRef[1], ok)
            /\ hist' = [hist EXCEPT !.hidden = ok /\ autosaveTimeout # <<>>
                                               /\ autosaveTimeout[1].remaining > 0]
       ELSE UNCHANGED <<storage, hist>>
    /\ UNCHANGED <<storeVars, serverVars, netVars, phase, formVars, lookupVars,
                   autosaveReadyRef, latestDraftSnapshotRef, autosaveTimeout,
                   didRestoreDraft, lastDraftSavedAt, submitVars>>

\* the sets of one exercise as buildPayload sends them
RECURSIVE BuildSets(_)
BuildSets(sets) ==
    IF sets = <<>> THEN <<>>
    ELSE LET reps == ParseInt10(Trim(Head(sets).reps))
             rawWeight == Trim(Head(sets).weightLb)
             weightLb == IF rawWeight = <<>> THEN JNull
                         ELSE IF StartsWith(rawWeight, <<".">>) THEN JStr(<<"0">> \o rawWeight)
                         ELSE JStr(rawWeight)
         IN  IF Trim(Head(sets).reps) = <<>> \/ reps.nan \/ reps.v <= 0
             THEN BuildSets(Tail(sets))
             ELSE <<[reps |-> JNum(reps.v), weightLb |-> weightLb]>> \o BuildSets(Tail(sets))

RECURSIVE BuildExercises(_)
BuildExercises(exs) ==
    IF exs = <<>> THEN <<>>
    ELSE LET name == normalizeExerciseDisplayName(Head(exs).name)
         IN  IF name = <<>> THEN BuildExercises(Tail(exs))
             ELSE <<[name |-> JStr(name), hasSets |-> TRUE,
                     sets |-> BuildSets(Head(exs).sets)]>> \o BuildExercises(Tail(exs))

\* buildPayload: [error, value]; error = "" when there is a payload to send
buildPayload(t, p, exs) ==
    LET normalizedExercises == BuildExercises(exs)
        value == [hasExercises |-> TRUE, title |-> t, performedAt |-> p,
                  exercises |-> normalizedExercises]
    IN  IF normalizedExercises = <<>>
        THEN [error |-> "Add at least one exercise with a name.", value |-> value]
        ELSE IF \E i \in 1..Len(normalizedExercises) : normalizedExercises[i].sets = <<>>
             THEN [error |-> "Add at least one set with reps.", value |-> value]
        ELSE [error |-> "", value |-> value]

\* handleSubmit up to the fetch
HandleSubmit ==
    /\ phase = "mounted"
    /\ LET payload == buildPayload(title, performedAt, exercises)
       IN  IF isSaving THEN UNCHANGED <<formError, isSaving, saveFetch>>
           ELSE IF payload.error # ""
                THEN /\ formError' = payload.error
                     /\ UNCHANGED <<isSaving, saveFetch>>
           ELSE /\ formError' = ""
                /\ isSaving' = TRUE
                /\ saveFetch' = <<[state |-> "sent", body |-> payload.value, status |-> 0]>>
    /\ UNCHANGED <<storeVars, serverVars, suggestionFetches, insightFetches, phase,
                   formVars, lookupVars, draftVars, navigated, hist>>

\* { error } of a response that is not ok
ErrorMessage(status) ==
    CASE status = 400 -> "Invalid workout."
      [] status = 401 -> "Sign in required."
      [] status = 409 -> "Duplicate set or exercise order detected. Refresh and try again."
      [] status = 503 -> "Database unavailable or schema mismatch."
      [] OTHER -> "Unable to save workout."

\* handleSubmit after the fetch settles: the response branch, the catch, the finally
HandleSubmitResponse(removeOk) ==
    /\ saveFetch # <<>>
    /\ saveFetch[1].state \in {"answered", "failed"}
    /\ saveFetch' = <<>>
    /\ isSaving' = FALSE
    /\ IF saveFetch[1].state = "failed"
       THEN /\ formError' = "Unable to save workout."
            /\ UNCHANGED <<storage, navigated, hist>>
       ELSE IF saveFetch[1].status # 201
            THEN /\ formError' = ErrorMessage(saveFetch[1].status)
                 /\ UNCHANGED <<storage, navigated, hist>>
       ELSE IF removeOk
            THEN /\ storage' = NoItem
                 /\ navigated' = TRUE
                 /\ hist' = [hist EXCEPT !.savedOk = TRUE]
                 /\ UNCHANGED formError
       ELSE /\ formError' = "Unable to save workout."
            /\ hist' = [hist EXCEPT !.savedOk = TRUE]
            /\ UNCHANGED <<storage, navigated>>
    /\ UNCHANGED <<storeVars, serverVars, suggestionFetches, insightFetches, phase,
                   formVars, lookupVars, autosaveReadyRef, latestDraftSnapshotRef,
                   autosaveTimeout, didRestoreDraft, lastDraftSavedAt>>

\* the route's answer when the server is not modelled step by step
ServerResponds(status) ==
    /\ saveFetch # <<>>
    /\ saveFetch[1].state = "sent"
    /\ saveFetch' = <<[saveFetch[1] EXCEPT !.state = "answered", !.status = status]>>
    /\ UNCHANGED <<storeVars, serverVars, suggestionFetches, insightFetches, phase,
                   formVars, lookupVars, draftVars, submitVars, hist>>

\* the fetch rejects
SaveFetchFails ==
    /\ saveFetch # <<>>
    /\ saveFetch[1].state = "sent"
    /\ saveFetch' = <<[saveFetch[1] EXCEPT !.state = "failed"]>>
    /\ UNCHANGED <<storeVars, serverVars, suggestionFetches, insightFetches, phase,
                   formVars, lookupVars, draftVars, submitVars, hist>>

\* the page is left (router.push after a save, or any other navigation): the effects'
\* cleanups clear the timers and remove the pagehide listener
Unmount ==
    /\ phase = "mounted"
    /\ phase' = "unmounted"
    /\ autosaveTimeout' = <<>>
    /\ suggestionDebounceTimeoutRef' = EmptyMap
    /\ UNCHANGED <<storeVars, serverVars, netVars, formVars, exerciseInsightById,
                   exerciseSuggestionById, insightCacheRef, latestInsightLookupRef,
                   suggestionCacheRef, latestSuggestionLookupRef, storage,
                   autosaveReadyRef, latestDraftSnapshotRef, didRestoreDraft,
                   lastDraftSavedAt, submitVars, hist>>


(***************************************************************************)
(* SpecServer: the logger's submit and POST /api/workouts, step by step,   *)
(* with database faults and concurrent readers                             *)
(***************************************************************************)

Cu == <<"C", "u">>

\* drafts an earlier visit can have left in storage
DraftOneSet ==
    DraftItem([title |-> "Push", performedAt |-> "2026-01-02T09:30",
               exercises |-> <<[name |-> Be,
                                sets |-> <<[reps |-> <<"5">>,
                                            weightLb |-> <<"1", "0">>]>>]>>])

DraftNoReps ==
    DraftItem([title |-> "Push", performedAt |-> "2026-01-01T10:00",
               exercises |-> <<[name |-> Bee,
                                sets |-> <<[reps |-> <<>>, weightLb |-> <<"1", "0">>]>>]>>])

DraftTwoExercises ==
    DraftItem([title |-> "Gym session", performedAt |-> "2026-01-02T09:30",
               exercises |-> <<[name |-> Be,
                                sets |-> <<[reps |-> <<"5">>, weightLb |-> <<"2", ".", "5">>],
                                           [reps |-> <<"3">>, weightLb |-> <<>>]>>],
                               [name |-> Cu,
                                sets |-> <<[reps |-> <<"8">>, weightLb |-> <<>>]>>]>>])

StoredItems == {NoItem, DraftOneSet, DraftNoReps, DraftTwoExercises}

\* request bodies sent to the route by other clients
BodyValid ==
    [hasExercises |-> TRUE, title |-> "", performedAt |-> "",
     exercises |-> <<[name |-> JStr(<<" ", "b", "e", "e">>), hasSets |-> TRUE,
                      sets |-> <<[reps |-> JStr(<<"8">>), weightLb |-> JNum(6)],
                                 [reps |-> JStr(<<"x">>), weightLb |-> JNull]>>]>>]

BodyZeroValidSets ==
    [hasExercises |-> TRUE, title |-> "Pull", performedAt |-> "2026-01-01T10:00",
     exercises |-> <<[name |-> JStr(Be), hasSets |-> TRUE,
                      sets |-> <<[reps |-> JNum(5), weightLb |-> JNull]>>],
                     [name |-> JStr(Cu), hasSets |-> TRUE,
                      sets |-> <<[reps |-> JNum(0), weightLb |-> JStr(<<"1", "0">>)],
                                 [reps |-> JStr(<<" ">>), weightLb |-> JNull]>>]>>]

DirectBodies == {BodyValid, BodyZeroValidSets}

DirectUsers == {"u1", ""}

InitServer ==
    /\ SeedStore
    /\ posts = EmptyMap
    /\ legacyPrismaClient \in BOOLEAN
    /\ InitNet
    /\ \E item \in StoredItems : InitLogger(item)
    /\ InitHist

NextServer ==
    \/ Mount
    \/ HandleSubmit
    \/ PostArrives
    \/ \E userId \in DirectUsers, body \in DirectBodies : DirectPost(userId, body)
    \/ \E r \in DOMAIN posts, outcome \in {"ok", "P2002", "Other"} :
          \/ CreateLog(r, outcome)
          \/ UpsertExercise(r, outcome)
          \/ UpdateLastPerformedAt(r, outcome)
          \/ CreateWorkoutExercise(r, outcome)
          \/ CreateSets(r, outcome)
          \/ DetectWorkoutSetWeightColumn(r, outcome)
          \/ InsertSetFallback(r, outcome)
          \/ Compensate(r, outcome)
    \/ HandleSubmitResponse(TRUE)

SpecServer == InitServer /\ [][NextServer]_vars


(***************************************************************************)
(* Claims about session creation (checked under SpecServer)                *)
(***************************************************************************)

Responded(r) == posts[r].pc = "responded"

\* the request ended in the catch block of POST after its WorkoutLog row was created
FailedAfterCreate(r) == Responded(r) /\ posts[r].error # "" /\ posts[r].logId # 0

\* rows of the store that belong to the session with the given id
RowsOfSession(id) ==
    {l \in workoutLogs : l.id = id}
    \cup {x \in workoutExercises : x.workoutLogId = id}
    \cup {s \in workoutSets :
            \E x \in workoutExercises : x.workoutLogId = id /\ s.workoutExerciseId = x.id}

\* C4: when a step after the creation of the WorkoutLog row fails, then at the moment
\* the error is surfaced to the caller no WorkoutLog row of that attempt, and none of
\* its exercises or sets, exists in the store.
C4_NothingLeftAfterFailure ==
    \A r \in DOMAIN posts : FailedAfterCreate(r) => RowsOfSession(posts[r].logId) = {}

TotalSets(payload) ==
    SumSeq([i \in 1..Len(payload.exercises) |-> Len(payload.exercises[i].sets)])

\* C5: no read sees a session in part: whenever the detail read finds the session a
\* request has created, it finds all the exercises and all the sets of the payload.
C5_NoPartialSessionRead ==
    \A r \in DOMAIN posts :
        LET seen == ReadWorkoutDetail(posts[r].userId, posts[r].logId)
        IN  posts[r].logId # 0 /\ seen.found
            => /\ seen.exerciseCount = Len(posts[r].payload.exercises)
               /\ seen.setCount = TotalSets(posts[r].payload)

\* the sessions of the entry's owner that contain the entry's exercise
SessionsBacking(e) ==
    {l \in workoutLogs :
        /\ l.userId = e.userId
        /\ \E x \in workoutExercises :
              x.workoutLogId = l.id /\ x.normalizedName = e.normalizedName}

Reconcilable(e) ==
    /\ SessionsBacking(e) # {}
    /\ \E l \in SessionsBacking(e) : l.performedAt = e.lastPerformedAt
    /\ \A l \in SessionsBacking(e) : l.performedAt <= e.lastPerformedAt

\* C6: while no session creation is in progress the catalog can be rebuilt from the
\* session history: every entry is backed by a session of its owner containing that
\* exercise, and its lastPerformedAt is the greatest performedAt of those sessions.
C6_CatalogReconcilable ==
    (\A r \in DOMAIN posts : Responded(r)) => \A e \in exerciseCatalog : Reconcilable(e)

\* integer reps > 0: a positive JSON number, or text that reads as a positive integer
ValidReps(value) ==
    \/ value.t = "num" /\ value.n > 0
    \/ /\ value.t = "str"
       /\ ~ParseInt10(value.s).nan
       /\ ParseInt10(value.s).v > 0

\* the request body names an exercise none of whose sets has valid reps
BodyHasNamedExerciseWithoutValidSet(body) ==
    \E i \in 1..Len(body.exercises) :
        /\ body.exercises[i].name.t = "str"
        /\ Trim(body.exercises[i].name.s) # <<>>
        /\ \A j \in 1..Len(body.exercises[i].sets) : ~ValidReps(body.exercises[i].sets[j].reps)

\* the form names an exercise none of whose sets has valid reps
FormHasNamedExerciseWithoutValidSet ==
    \E i \in 1..Len(exercises) :
        /\ Trim(exercises[i].name) # <<>>
        /\ \A j \in 1..Len(exercises[i].sets) : ~ValidReps(JStr(exercises[i].sets[j].reps))

C14_OriginalErrorKept ==
    \A r \in DOMAIN posts :
        Responded(r) /\ posts[r].deleteError # ""
        => /\ posts[r].thrown = posts[r].error
           /\ posts[r].thrown # ""
           /\ posts[r].status = ErrorStatus(posts[r].error)
           /\ posts[r].status # 201

\* a creation step failed with one error, the compensating delete with another, and
\* the response carries the first
C14_Witness ==
    \E r \in DOMAIN posts :
        /\ Responded(r) /\ posts[r].logId # 0
        /\ posts[r].error = "P2002" /\ posts[r].deleteError = "Other"
        /\ posts[r].thrown = "P2002" /\ posts[r].status = 409

\* text that is present (not blank) and does not read as a positive-integer count
NonNumericReps(value) ==
    value.t = "str" /\ Trim(value.s) # <<>> /\ ParseInt10(Trim(value.s)).nan

\* text that is present (not blank) and does not read as a decimal number
NonNumericWeight(value) ==
    value.t = "str" /\ Trim(value.s) # <<>> /\ ~IsDecimalText(Trim(value.s))

\* the request body holds, under a named exercise, a set whose reps or weight is
\* present but not numeric
BodyHasNonNumericSet(body) ==
    /\ body.hasExercises
    /\ \E i \in 1..Len(body.exercises) :
          /\ toOptionalTrimmedString(body.exercises[i].name) # <<>>
          /\ body.exercises[i].hasSets
          /\ \E j \in 1..Len(body.exercises[i].sets) :
                \/ NonNumericReps(body.exercises[i].sets[j].reps)
                \/ NonNumericWeight(body.exercises[i].sets[j].weightLb)

\* C22: a POST of a signed-in user with a set whose reps or weight is present but
\* non-numeric is answered with 400 and creates nothing: no write is issued and no
\* session row of the request exists.
C22_NonNumericSetRejected ==
    \A r \in DOMAIN posts :
        Responded(r) /\ posts[r].userId # "" /\ BodyHasNonNumericSet(posts[r].body)
        => /\ posts[r].status = 400
           /\ posts[r].writes = 0
           /\ posts[r].logId = 0


(***************************************************************************)
(* SpecDraft: the logger's form, its draft in storage, page hide, submit   *)
(***************************************************************************)

\* ticks of the model clock between two timer expiries
HalfDelay == WORKOUT_AUTOSAVE_DELAY_MS \div 2

InitDraft ==
    /\ SeedStore
    /\ InitServerIdle
    /\ InitNet
    /\ \E item \in {NoItem, DraftOneSet} : InitLogger(item)
    /\ InitHist

NextDraft ==
    \/ Mount
    \/ \E value \in Titles : SetTitle(value)
    \/ \E value \in WellFormedDateTimes : SetPerformedAt(value)
    \/ \E id \in ExerciseIdsOf(exercises) :
          \/ \E setId \in SetIdsOf(exercises, id), typed \in RepsTyped :
                UpdateSetReps(id, setId, typed)
          \/ \E setId \in SetIdsOf(exercises, id), typed \in WeightTyped :
                UpdateSetWeight(id, setId, typed)
          \/ AddSet(id)
          \/ \E setId \in SetIdsOf(exercises, id) : RemoveSet(id, setId)
          \/ RemoveExercise(id)
    \/ AddExercise
    \/ \E d \in {HalfDelay} \cup (IF TimerPending THEN {NextDueIn} ELSE {}) : Tick(d)
    \/ \E ok \in BOOLEAN : AutosaveFire(ok)
    \/ \E ok \in BOOLEAN : PageHide(ok)
    \/ HandleSubmit
    \/ \E status \in {201, 400, 500} : ServerResponds(status)
    \/ SaveFetchFails
    \/ HandleSubmitResponse(TRUE)
    \/ Unmount

SpecDraft == InitDraft /\ [][NextDraft]_vars


(***************************************************************************)
(* Claims about the draft (checked under SpecDraft)                        *)
(***************************************************************************)

\* what createWorkoutDraftSnapshot makes of the form as it is now
CurrentSnapshot == createWorkoutDraftSnapshot(title, performedAt, exercises)

\* C8: after a submit has succeeded, and for as long as the user makes no further
\* edit, storage holds no draft, whatever timer was pending at the submit and
\* whatever page-hide event follows it.
C8_NoDraftAfterSubmit == hist.savedOk => storage = NoItem

\* C9: autosave is debounced and coalescing: while the last mutation is less than
\* 350 ms old the autosave timer has written nothing in this burst, and once 350 ms
\* have passed and the timer has run it has written exactly once, the stored snapshot
\* being the form's current field values when that write succeeded.
C9_AutosaveDebounced ==
    phase = "mounted" /\ hist.edited
    => /\ hist.sinceEdit < WORKOUT_AUTOSAVE_DELAY_MS => hist.burstWrites = 0
       /\ hist.sinceEdit = WORKOUT_AUTOSAVE_DELAY_MS /\ autosaveTimeout = <<>>
          => /\ hist.burstWrites = 1
             /\ hist.lastWriteOk /\ ~hist.savedOk => storage = DraftItem(CurrentSnapshot)

\* a burst of at least two mutations has ended in one successful write of the form
C9_Witness ==
    /\ phase = "mounted" /\ hist.edited /\ hist.burstEdits >= 2
    /\ hist.sinceEdit = WORKOUT_AUTOSAVE_DELAY_MS /\ autosaveTimeout = <<>>
    /\ hist.burstWrites = 1 /\ hist.lastWriteOk /\ ~hist.savedOk
    /\ storage = DraftItem(CurrentSnapshot)

\* C10: a page-hide event on the mounted logger stores the snapshot of the form as it
\* is at that moment, at once and whatever the state of the debounce timer, when the
\* storage write goes through.
C10_PageHideWritesLatest ==
    [][PageHide(TRUE) => storage' = DraftItem(CurrentSnapshot)]_vars

\* page hide has stored the edited form while the debounce timer was still running
C10_Witness ==
    /\ hist.hidden /\ hist.edited
    /\ autosaveTimeout # <<>> /\ autosaveTimeout[1].remaining > 0
    /\ storage = DraftItem(CurrentSnapshot)

(***************************************************************************)
(* SpecStorage: the logger over a storage that can hold anything and can   *)
(* fail: load, autosave, page hide, submit, leaving and opening again      *)
(***************************************************************************)

\* times the logger is opened in one behaviour
MaxOpens == 2

\* the load effect throws: window.localStorage.getItem throws, or the removeItem of an
\* unparseable value does. Nothing catches an error thrown by an effect, so React
\* takes the component tree down and the effects after the load effect never run.
LoadEffectThrows(at) ==
    /\ phase = "initial"
    /\ at = "removeItem" => IsTruthy(storage) /\ parseStoredWorkoutDraft(storage) = <<>>
    /\ phase' = "crashed"
    /\ UNCHANGED <<storeVars, serverVars, netVars, formVars, lookupVars, draftVars,
                   submitVars, hist>>

\* the logger's page is opened again: a new component instance, constructed as the
\* first one was, over the storage the earlier instance left behind
Reopen ==
    /\ phase \in {"unmounted", "crashed"}
    /\ saveFetch = <<>>
    /\ hist.opens < MaxOpens
    /\ phase' = "initial"
    /\ title' = "Gym session"
    /\ performedAt' = NowLocal
    /\ exercises' = <<createExerciseDraft(ExerciseIds[1], SetIds[1])>>
    /\ idCounterRef' = [exercise |-> 1, set |-> 1]
    /\ exerciseInsightById' = EmptyMap
    /\ exerciseSuggestionById' = EmptyMap
    /\ insightCacheRef' = EmptyMap
    /\ latestInsightLookupRef' = EmptyMap
    /\ suggestionCacheRef' = EmptyMap
    /\ latestSuggestionLookupRef' = EmptyMap
    /\ suggestionDebounceTimeoutRef' = EmptyMap
    /\ autosaveReadyRef' = FALSE
    /\ latestDraftSnapshotRef' = <<>>
    /\ autosaveTimeout' = <<>>
    /\ formError' = ""
    /\ isSaving' = FALSE
    /\ didRestoreDraft' = FALSE
    /\ lastDraftSavedAt' = ""
    /\ navigated' = FALSE
    /\ hist' = [hist EXCEPT !.opens = @ + 1]
    /\ UNCHANGED <<storeVars, serverVars, netVars, storage>>

\* what an earlier visit, another script or the user can have left under the draft key
AnyStoredItems ==
    {NoItem, DraftOneSet} \cup {ForeignItem(k) : k \in {"empty", "invalid", "scalar", "array"}}

InitStorage ==
    /\ SeedStore
    /\ InitServerIdle
    /\ InitNet
    /\ \E item \in AnyStoredItems : InitLogger(item)
    /\ hist = [HistAtStart EXCEPT !.openedEmpty = (storage = NoItem)]

NextStorage ==
    \/ Mount
    \/ \E at \in {"getItem", "removeItem"} : LoadEffectThrows(at)
    \/ \E value \in Titles : SetTitle(value)
    \/ \E id \in ExerciseIdsOf(exercises) :
          \E setId \in SetIdsOf(exercises, id), typed \in RepsTyped :
             UpdateSetReps(id, setId, typed)
    \/ \E d \in {HalfDelay} \cup (IF TimerPending THEN {NextDueIn} ELSE {}) : Tick(d)
    \/ \E ok \in BOOLEAN : AutosaveFire(ok)
    \/ \E ok \in BOOLEAN : PageHide(ok)
    \/ HandleSubmit
    \/ \E status \in {201, 500} : ServerResponds(status)
    \/ SaveFetchFails
    \/ \E removeOk \in BOOLEAN : HandleSubmitResponse(removeOk)
    \/ Unmount
    \/ Reopen

SpecStorage == InitStorage /\ [][NextStorage]_vars


(***************************************************************************)
(* Claims about draft storage (checked under SpecStorage)                  *)
(***************************************************************************)

\* handleSubmit takes up a 201 answer of the server
SavedAnswerTakenUp ==
    /\ saveFetch # <<>>
    /\ saveFetch[1].state = "answered"
    /\ saveFetch[1].status = 201
    /\ saveFetch' = <<>>

\* C11: draft storage is best-effort: no failure of a draft-storage operation (the
\* read at load, the autosave write, the removal at submit) takes the logger away
\* from the user, and a workout the server answered with 201 is never reported to
\* the user as failed: no form error is set and the logger navigates on.
C11_StorageBestEffort ==
    [][/\ phase' # "crashed"
       /\ SavedAnswerTakenUp => formError' = "" /\ navigated']_vars

\* the stored value is present but is not a JSON object
Unparseable(rawValue) == rawValue.kind \in {"empty", "invalid", "scalar", "array"}

\* C12: when the load effect meets a stored value that is present but unparseable
\* (invalid JSON, or JSON that is not an object), it removes the value from storage,
\* the form keeps its default state and no draft-restored indicator is shown.
C12_UnparseableDraftRemoved ==
    [][phase = "initial" /\ phase' = "mounted" /\ Unparseable(storage)
       => /\ storage' = NoItem
          /\ ~didRestoreDraft'
          /\ title' = "Gym session" /\ performedAt' = NowLocal
          /\ exercises' = <<createExerciseDraft(ExerciseIds[1], SetIds[1])>>]_vars

\* C13: after the logger was opened with empty storage, nothing is written to storage
\* before the user's first form mutation: with no mutation made, storage stays empty
\* and no load shows the draft-restored indicator.
C13_NoSnapshotBeforeFirstEdit ==
    hist.openedEmpty /\ ~hist.edited => storage = NoItem /\ ~didRestoreDraft

(***************************************************************************)
(* SpecRanker: the suggestion ranker over answers of any content           *)
(***************************************************************************)

\* what the user types into the name input: "bench", "b", " B " and "a b"
RankerQueries ==
    {<<"b", "e", "n", "c", "h">>,
     <<"b">>,
     <<" ", "B", " ">>,
     <<"a", " ", "b">>}

\* names a suggestions answer can carry: the three names of the documented example,
\* names matching "b" inside a word and at a word start, a name of 48 characters
\* (46 times "a", then " b"), a name equal to the key "b", a name with a doubled
\* space and a name matching nothing
RankerNames ==
    <<<<"B", "a", "r", "b", "e", "l", "l", " ", "B", "e", "n", "c", "h", " ", "P", "r", "e", "s", "s">>,
      <<"I", "n", "c", "l", "i", "n", "e", " ", "B", "e", "n", "c", "h">>,
      <<"B", "e", "n", "c", "h">>,
      <<"a", "b", " ", "b">>,
      <<"a", "a", "a", "a", "a", " ", "b">>,
      <<"a", "b">>,
      <<"B">>,
      <<"b", " ", " ", "a">>,
      <<"c", "d">>,
      [i \in 1..48 |-> IF i <= 46 THEN "a" ELSE IF i = 47 THEN " " ELSE "b"]>>

\* names per answer
MaxAnswerLen == 3

\* the bodies of a suggestions answer: any list of names, blank entries included
RankerPayloads ==
    UNION {[1..n -> {RankerNames[k] : k \in 1..Len(RankerNames)} \cup {<<" ">>}] :
           n \in 0..MaxAnswerLen}

NextRanker ==
    \/ Mount
    \/ \E id \in ExerciseIdsOf(exercises), rawValue \in RankerQueries :
          hist.edits = 0 /\ HandleExerciseNameChange(id, rawValue)
    \/ \E id \in DOMAIN suggestionDebounceTimeoutRef : SuggestionDebounceFire(id)
    \/ \E f \in suggestionFetches, payload \in RankerPayloads :
          SuggestionAnswered(f, TRUE, SanitizeSuggestions(payload))
    \/ AutosaveFire(FALSE)
    \/ TimerPending /\ Tick(NextDueIn)

SpecRanker == InitLookup /\ [][NextRanker]_vars

(***************************************************************************)
(* Claims about the ranker (checked under SpecRanker).  rankSuggestions is *)
(* pickBestExerciseSuggestion, normalizeKey is normalizeExerciseLookupKey. *)
(***************************************************************************)

\* the queries the ranker is evaluated on: the typed ones, the empty and the blank one
AllQueries == RankerQueries \cup {<<>>, <<" ">>}

\* the candidate lists the logger has received so far
ReceivedLists == {suggestionCacheRef[k] : k \in DOMAIN suggestionCacheRef}

\* the whitespace-cleaned display form of a candidate
CleanDisplay(name) == CollapseWs(Trim(name))

\* the candidate's key differs from the query key and contains every query token
Survives(queryKey, candidate) ==
    LET candidateKey == normalizeExerciseLookupKey(candidate)
        tokens == FilterNonEmpty(SplitSpace(queryKey))
    IN  /\ candidateKey # queryKey
        /\ \A i \in 1..Len(tokens) : Includes(candidateKey, tokens[i])

\* C15: rankSuggestions(query, candidates) is null or (the cleaned display form of) a
\* candidate of the list whose normalized key differs from normalizeKey(query) and
\* contains every query token; it is null exactly when the query key is empty or no
\* candidate satisfies the two conditions.
C15_ReturnsSurvivorOrNull ==
    \A q \in AllQueries, cands \in ReceivedLists :
        LET key == normalizeExerciseLookupKey(q)
            r == pickBestExerciseSuggestion(q, cands)
        IN  /\ r = <<>> <=> (key = <<>> \/ \A i \in 1..Len(cands) : ~Survives(key, cands[i]))
            /\ r # <<>> => \E i \in 1..Len(cands) :
                              /\ r = CleanDisplay(cands[i])
                              /\ Survives(key, cands[i])
                              /\ (cands[i] = CleanDisplay(cands[i]) => r = cands[i])

\* the answer to the typed "b" held the name "B" itself and the name "ab", and the
\* slot shows "ab"
C15_Witness ==
    /\ <<"b">> \in DOMAIN suggestionCacheRef
    /\ suggestionCacheRef[<<"b">>] = <<<<"B">>, <<"a", "b">>>>
    /\ \E id \in DOMAIN exerciseSuggestionById :
          /\ id \in DOMAIN hist.lookup /\ hist.lookup[id].query = <<"b">>
          /\ exerciseSuggestionById[id] = <<"a", "b">>

\* the score as documented, doubled: a token counts 45 when it occurs in the
\* candidate key at index 0 or immediately after a space, else 22
DocumentedScoreTwice(queryKey, candidateKey) ==
    LET tokens == FilterNonEmpty(SplitSpace(queryKey))
        AtWordStart(token) ==
            \E i \in 0..(Len(candidateKey) - Len(token)) :
                /\ SubSeq(candidateKey, i + 1, i + Len(token)) = token
                /\ (i = 0 \/ candidateKey[i] = " ")
    IN  (IF StartsWith(candidateKey, queryKey) THEN 2 * 280
         ELSE IF Includes(candidateKey, queryKey) THEN 2 * 190 ELSE 0)
        + SumSeq([i \in 1..Len(tokens) |-> IF AtWordStart(tokens[i]) THEN 2 * 45 ELSE 2 * 22])
        - Max2(0, Len(candidateKey) - Len(queryKey))

\* C16: the candidate rankSuggestions returns has the highest documented score among
\* the surviving candidates, and rankSuggestions("bench", ["Barbell Bench Press",
\* "Incline Bench", "Bench"]) is "Incline Bench".
C16_ReturnsHighestScore ==
    \A q \in AllQueries, cands \in ReceivedLists :
        LET key == normalizeExerciseLookupKey(q)
            r == pickBestExerciseSuggestion(q, cands)
        IN  /\ r # <<>> =>
                \A i \in 1..Len(cands) :
                    Survives(key, cands[i])
                    => DocumentedScoreTwice(key, normalizeExerciseLookupKey(r))
                       >= DocumentedScoreTwice(key, normalizeExerciseLookupKey(cands[i]))
            /\ (q = <<"b", "e", "n", "c", "h">> /\ cands = <<RankerNames[1], RankerNames[2], RankerNames[3]>>)
               => r = RankerNames[2]

\* the surviving candidates of a list with the highest score for a query key
TopScored(key, cands) ==
    LET ScoreOf(i) == scoreExerciseSuggestionMatch(key, normalizeExerciseLookupKey(cands[i])).twice
        alive == {i \in 1..Len(cands) : Survives(key, cands[i])}
    IN  {i \in alive : \A j \in alive : ScoreOf(i) >= ScoreOf(j)}

\* the list in reverse order
Reverse(list) == [i \in 1..Len(list) |-> list[Len(list) + 1 - i]]

\* C17: when several surviving candidates share the highest score, rankSuggestions
\* returns one whose whitespace-cleaned display name is shortest, and the length of
\* the returned name does not depend on the order of the list.
C17_TieGoesToShortestName ==
    \A q \in AllQueries, cands \in ReceivedLists :
        LET key == normalizeExerciseLookupKey(q)
            r == pickBestExerciseSuggestion(q, cands)
            top == TopScored(key, cands)
        IN  r # <<>> =>
              /\ \E i \in top :
                    /\ r = CleanDisplay(cands[i])
                    /\ \A j \in top : Len(r) <= Len(CleanDisplay(cands[j]))
              /\ Len(pickBestExerciseSuggestion(q, Reverse(cands))) = Len(r)

\* the answer to the typed "b" held the name of 48 characters before the name "ab",
\* both of score 211.5, and the slot shows "ab"
C17_Witness ==
    /\ <<"b">> \in DOMAIN suggestionCacheRef
    /\ suggestionCacheRef[<<"b">>] = <<RankerNames[10], <<"a", "b">>>>
    /\ TopScored(<<"b">>, suggestionCacheRef[<<"b">>]) = {1, 2}
    /\ \E id \in DOMAIN exerciseSuggestionById : exerciseSuggestionById[id] = <<"a", "b">>

(***************************************************************************)
(* SpecHistory: histories of logged sessions, grown by POST /api/workouts, *)
(* and what the detail page, the dashboard and the insights route compute  *)
(***************************************************************************)

\* the documented example: two sessions of one exercise, 5 x 100 lb and 3 x 120 lb,
\* beside a session of another user
ExampleHistory ==
    /\ exerciseCatalog =
          {[id |-> 1, userId |-> "u1", name |-> Be,
            normalizedName |-> normalizeExerciseName(Be), lastPerformedAt |-> 2],
           [id |-> 2, userId |-> "u2", name |-> Be,
            normalizedName |-> normalizeExerciseName(Be), lastPerformedAt |-> 3]}
    /\ workoutLogs =
          {[id |-> 3, userId |-> "u1", title |-> "Push", performedAt |-> 1,
            totalWeightLb |-> Weight(5000)],
           [id |-> 4, userId |-> "u1", title |-> "Push", performedAt |-> 2,
            totalWeightLb |-> Weight(3600)],
           [id |-> 5, userId |-> "u2", title |-> "Push", performedAt |-> 3,
            totalWeightLb |-> Weight(5000)]}
    /\ workoutExercises =
          {[id |-> 6, workoutLogId |-> 3, exerciseId |-> 1, name |-> Be,
            normalizedName |-> normalizeExerciseName(Be), order |-> 1],
           [id |-> 7, workoutLogId |-> 4, exerciseId |-> 1, name |-> Be,
            normalizedName |-> normalizeExerciseName(Be), order |-> 1],
           [id |-> 8, workoutLogId |-> 5, exerciseId |-> 2, name |-> Be,
            normalizedName |-> normalizeExerciseName(Be), order |-> 1]}
    /\ workoutSets =
          {[workoutExerciseId |-> 6, order |-> 1, reps |-> 5, weightLb |-> Weight(1000)],
           [workoutExerciseId |-> 7, order |-> 1, reps |-> 3, weightLb |-> Weight(1200)],
           [workoutExerciseId |-> 8, order |-> 1, reps |-> 1, weightLb |-> Weight(5000)]}
    /\ nextRowId = 10

\* a user who has logged one exercise in one more session than the insights route
\* reads, one set of 5 x 100 lb per session and 5 x 200 lb in the oldest session
LongHistory ==
    /\ exerciseCatalog =
          {[id |-> 1, userId |-> "u1", name |-> Be,
            normalizedName |-> normalizeExerciseName(Be),
            lastPerformedAt |-> INSIGHT_TAKE + 1]}
    /\ workoutLogs =
          {[id |-> 1000 + n, userId |-> "u1", title |-> "Push", performedAt |-> n,
            totalWeightLb |-> Weight(IF n = 1 THEN 10000 ELSE 5000)] :
           n \in 1..(INSIGHT_TAKE + 1)}
    /\ workoutExercises =
          {[id |-> 2000 + n, workoutLogId |-> 1000 + n, exerciseId |-> 1, name |-> Be,
            normalizedName |-> normalizeExerciseName(Be), order |-> 1] :
           n \in 1..(INSIGHT_TAKE + 1)}
    /\ workoutSets =
          {[workoutExerciseId |-> 2000 + n, order |-> 1, reps |-> 5,
            weightLb |-> Weight(IF n = 1 THEN 2000 ELSE 1000)] :
           n \in 1..(INSIGHT_TAKE + 1)}
    /\ nextRowId = 3000

\* a session with the same exercise entered twice, with a fractional and a missing weight
BodySameExerciseTwice ==
    [hasExercises |-> TRUE, title |-> "Pull", performedAt |-> "2026-01-01T10:00",
     exercises |-> <<[name |-> JStr(Cu), hasSets |-> TRUE,
                      sets |-> <<[reps |-> JNum(8), weightLb |-> JNull]>>],
                     [name |-> JStr(<<"c", "u", " ">>), hasSets |-> TRUE,
                      sets |-> <<[reps |-> JNum(3),
                                  weightLb |-> JStr(<<"2", "2", ".", "5">>)],
                                 [reps |-> JNum(2), weightLb |-> JNum(20)]>>]>>]

\* a session of the exercise of the histories, heavier than any before, with another
\* spelling of its name
BodyHeavier ==
    [hasExercises |-> TRUE, title |-> "Push", performedAt |-> "2026-01-02T09:30",
     exercises |-> <<[name |-> JStr(<<"B", "E">>), hasSets |-> TRUE,
                      sets |-> <<[reps |-> JNum(4), weightLb |-> JNum(600)],
                                 [reps |-> JNum(6), weightLb |-> JNull]>>]>>]

HistoryBodies == {BodySameExerciseTwice, BodyHeavier, BodyValid}

InitHistory ==
    /\ SeedStore \/ ExampleHistory
    /\ InitServerIdle
    /\ InitNet
    /\ InitLogger(NoItem)
    /\ InitHist

NextHistory ==
    \/ \E userId \in {"u1", "u2"}, body \in HistoryBodies : DirectPost(userId, body)
    \/ \E r \in DOMAIN posts :
          \/ CreateLog(r, "ok")
          \/ UpsertExercise(r, "ok")
          \/ UpdateLastPerformedAt(r, "ok")
          \/ CreateWorkoutExercise(r, "ok")
          \/ CreateSets(r, "ok")

SpecHistory == InitHistory /\ [][NextHistory]_vars

InitLongHistory ==
    /\ LongHistory
    /\ InitServerIdle
    /\ InitNet
    /\ InitLogger(NoItem)
    /\ InitHist

SpecLongHistory == InitLongHistory /\ [][NextHistory]_vars

(***************************************************************************)
(* Claims about aggregation over a history (checked under SpecHistory)     *)
(***************************************************************************)

HistoryUsers == {"u1", "u2"}

\* the entries of a user's history with a normalized key, and their sets
EntriesOf(userId, key) == {x \in ExerciseRowsOf(userId) : x.normalizedName = key}

KeysOf(userId) == {x.normalizedName : x \in ExerciseRowsOf(userId)}

SetRowsOf(entries) == {s \in workoutSets : \E x \in entries : x.id = s.workoutExerciseId}

Weighted(sets) == {s \in sets : ~s.weightLb.isNull}

RECURSIVE SumOfReps(_)
SumOfReps(sets) ==
    IF sets = {} THEN 0
    ELSE LET s == CHOOSE q \in sets : TRUE IN s.reps + SumOfReps(sets \ {s})

RECURSIVE SumOfVolume(_)
SumOfVolume(sets) ==
    IF sets = {} THEN 0
    ELSE LET s == CHOOSE q \in sets : TRUE
         IN  s.weightLb.v * s.reps + SumOfVolume(sets \ {s})

MaxWeightOf(sets) == CHOOSE w \in {s.weightLb.v : s \in sets} :
                        \A s \in sets : s.weightLb.v <= w

\* the aggregate of the exercise detail page has the documented counts, sums and maximum
DetailAggregateExact(userId, key) ==
    LET sets == SetRowsOf(EntriesOf(userId, key))
        page == ExerciseDetailPage(userId, key)
    IN  /\ page.found
        /\ page.sessionsCount = Cardinality({x.workoutLogId : x \in EntriesOf(userId, key)})
        /\ page.totalSetCount = Cardinality(sets)
        /\ page.totalReps = SumOfReps(sets)
        /\ page.totalLoad = SumOfVolume(Weighted(sets))
        /\ Weighted(sets) # {} => page.bestWeight = MaxWeightOf(Weighted(sets))

\* the dashboard's exercise of the key has the documented counts and sums
DashboardCountsExact(userId, key) ==
    LET sets == SetRowsOf(EntriesOf(userId, key))
    IN  \E item \in DashboardExercises(userId) :
           /\ item.key = key
           /\ item.sessionCount = Cardinality({x.workoutLogId : x \in EntriesOf(userId, key)})
           /\ item.setCount = Cardinality(sets)
           /\ item.totalReps = SumOfReps(sets)

\* the dashboard's exercise of the key has the maximum weight as its best weight
DashboardBestExact(userId, key) ==
    LET sets == SetRowsOf(EntriesOf(userId, key))
    IN  \A item \in DashboardExercises(userId) :
           item.key = key /\ Weighted(sets) # {}
           => item.bestWeight = MaxWeightOf(Weighted(sets))

\* C18: for any history of a user and any normalized key in it, the per-exercise
\* aggregate of the exercise detail page and of the dashboard has session count =
\* number of distinct sessions with an entry of the key, set count and total reps =
\* sums over all its sets, best weight = maximum weight over the sets with a weight,
\* total volume = sum of weight * reps over those sets (the dashboard computes no volume)
C18_AggregatePerExercise ==
    \A userId \in HistoryUsers : \A key \in KeysOf(userId) :
       /\ DetailAggregateExact(userId, key)
       /\ DashboardCountsExact(userId, key)
       /\ DashboardBestExact(userId, key)

(***************************************************************************)
(* Claims about the all-time best weight (checked under SpecLongHistory)   *)
(***************************************************************************)

\* the insights lookup's all-time best is the maximum weight of the user's history
AllTimeBestIsMax(userId, key) ==
    LET weighted == Weighted(SetRowsOf(EntriesOf(userId, key)))
    IN  InsightsGET(userId, key).allTimeBestWeight =
            IF weighted = {} THEN NullWeight ELSE Weight(MaxWeightOf(weighted))

\* the insights lookup's all-time best is not lower than the last session's best weight
AllTimeBestCoversLast(userId, key) ==
    LET insight == InsightsGET(userId, key)
    IN  insight.hasLastSession /\ ~insight.lastSession[1].bestWeight.isNull
        => /\ ~insight.allTimeBestWeight.isNull
           /\ insight.allTimeBestWeight.v >= insight.lastSession[1].bestWeight.v

\* C19: the allTimeBestWeight of the insights lookup for an exercise is the maximum
\* bestWeight over all of the user's per-session aggregates for that exercise, however
\* many sessions the history holds (null when no session has a weighted set), and it is
\* never lower than lastSession.bestWeight
C19_AllTimeBestOverWholeHistory ==
    \A userId \in HistoryUsers : \A key \in KeysOf(userId) :
       /\ AllTimeBestIsMax(userId, key)
       /\ AllTimeBestCoversLast(userId, key)

(***************************************************************************)
(* SpecCompare: a restored draft, its names committed, its sets edited     *)
(***************************************************************************)

InitCompare ==
    /\ ExampleHistory
    /\ InitServerIdle
    /\ InitNet
    /\ \E item \in {DraftOneSet, DraftNoReps, DraftTwoExercises} : InitLogger(item)
    /\ InitHist

NextCompare ==
    \/ Mount
    \/ \E id \in ExerciseIdsOf(exercises) : HandleExerciseNameBlur(id)
    \/ \E f \in insightFetches, ok \in BOOLEAN : InsightResponse(f, ok)
    \/ \E id \in ExerciseIdsOf(exercises) :
          \/ \E setId \in SetIdsOf(exercises, id), typed \in RepsTyped :
                UpdateSetReps(id, setId, typed)
          \/ \E setId \in SetIdsOf(exercises, id), typed \in WeightTyped :
                UpdateSetWeight(id, setId, typed)
          \/ AddSet(id)
          \/ \E setId \in SetIdsOf(exercises, id) : RemoveSet(id, setId)
    \/ TimerPending /\ Tick(NextDueIn)
    \/ \E ok \in BOOLEAN : AutosaveFire(ok)

SpecCompare == InitCompare /\ [][NextCompare]_vars


(***************************************************************************)
(* Claims about the live comparison (checked under SpecCompare)            *)
(***************************************************************************)

\* the slot's insight is ready with a last session
ReadyWithLastSession(exercise) ==
    /\ InsightStatus(exercise.id) = "ready"
    /\ exerciseInsightById[exercise.id].data.hasLastSession

LastSessionOf(exercise) == exerciseInsightById[exercise.id].data.lastSession[1]

\* the sets of the draft that count: reps an integer above 0
CountedSets(exercise) ==
    {j \in 1..Len(exercise.sets) :
        LET reps == ParseInt10(Trim(exercise.sets[j].reps)) IN ~reps.nan /\ reps.v > 0}

\* the counted sets with a valid non-negative weight
WeightedSets(exercise) ==
    {j \in CountedSets(exercise) : ~toOptionalPositiveNumber(exercise.sets[j].weightLb).isNull}

RECURSIVE DraftVolumeOver(_, _)
DraftVolumeOver(exercise, indices) ==
    IF indices = {} THEN 0
    ELSE LET j == CHOOSE i \in indices : TRUE
         IN  toOptionalPositiveNumber(exercise.sets[j].weightLb).v
                 * ParseInt10(Trim(exercise.sets[j].reps)).v
             + DraftVolumeOver(exercise, indices \ {j})

\* the draft's total volume: weight * reps summed over the weighted sets
DraftVolume(exercise) == DraftVolumeOver(exercise, WeightedSets(exercise))

\* the draft's best weight, a missing one counted as 0
DraftBestOrZero(exercise) ==
    IF WeightedSets(exercise) = {} THEN 0
    ELSE CHOOSE w \in {toOptionalPositiveNumber(exercise.sets[j].weightLb).v :
                         j \in WeightedSets(exercise)} :
            \A j \in WeightedSets(exercise) :
               toOptionalPositiveNumber(exercise.sets[j].weightLb).v <= w

LastBestOrZero(exercise) ==
    IF LastSessionOf(exercise).bestWeight.isNull THEN 0
    ELSE LastSessionOf(exercise).bestWeight.v

\* the best-weight delta shown is draft best weight - last best weight, missing as 0
BestWeightDeltaExact ==
    \A i \in 1..Len(exercises) :
       ReadyWithLastSession(exercises[i])
       => /\ ComparisonRender(exercises[i]).shown = "comparison"
          /\ ComparisonRender(exercises[i]).bestWeightDelta =
                 DraftBestOrZero(exercises[i]) - LastBestOrZero(exercises[i])

\* a set edit: the mounted form's sets change while its exercises keep their names
SetEdit ==
    /\ phase = "mounted"
    /\ phase' = "mounted"
    /\ exercises' # exercises
    /\ Len(exercises') = Len(exercises)
    /\ \A i \in 1..Len(exercises) :
          exercises'[i].id = exercises[i].id /\ exercises'[i].name = exercises[i].name

\* a set edit issues no request and leaves the fetched baselines as they are
SetEditNeedsNoRequest ==
    SetEdit => /\ UNCHANGED netVars
               /\ exerciseInsightById' = exerciseInsightById
               /\ insightCacheRef' = insightCacheRef

\* C20: for an exercise slot whose insight is ready with a last session, the volume
\* delta shown is the draft's total volume, rounded to the whole pound as volumes are
\* for display, minus lastSession.totalVolume, and the best-weight delta is draft best
\* weight minus lastSession.bestWeight with a missing best weight counted as 0; the
\* draft aggregate counts only sets with integer reps > 0 and adds weight * reps only
\* for sets with a valid non-negative weight; both deltas are those of the current
\* draft after every set edit, and a set edit issues no network request
C20_LiveComparison ==
    /\ [](/\ BestWeightDeltaExact
          /\ \A i \in 1..Len(exercises) :
                ReadyWithLastSession(exercises[i])
                => ComparisonRender(exercises[i]).volumeDelta =
                      MathRound(DraftVolume(exercises[i]))
                      - LastSessionOf(exercises[i]).totalVolume)
    /\ [][SetEditNeedsNoRequest]_vars

\* C20 as stated: the volume delta is the draft's total volume, the plain sum of
\* weight * reps, minus lastSession.totalVolume
C20_LiveComparisonOfPlainSum ==
    /\ [](/\ BestWeightDeltaExact
          /\ \A i \in 1..Len(exercises) :
                ReadyWithLastSession(exercises[i])
                => ComparisonRender(exercises[i]).volumeDelta =
                      DraftVolume(exercises[i]) - LastSessionOf(exercises[i]).totalVolume)
    /\ [][SetEditNeedsNoRequest]_vars

\* a slot ready with a last session whose sets were edited to a volume of 12.5 lb and
\* to a set without reps, with no request in flight
C20_Witness ==
    /\ hist.edits > 0
    /\ insightFetches = {}
    /\ \E i \in 1..Len(exercises) :
          /\ ReadyWithLastSession(exercises[i])
          /\ DraftVolume(exercises[i]) = 125
          /\ ComparisonRender(exercises[i]).volumeDelta
                 = 130 - LastSessionOf(exercises[i]).totalVolume
          /\ CountedSets(exercises[i]) # 1..Len(exercises[i].sets)

(***************************************************************************)
(* SpecScoped: the stores of two users, grown and cut back by their        *)
(* requests, and what the reads return for each of them                    *)
(***************************************************************************)

\* a store with rows written before the catalog was kept: the history of u1 holds
\* exercises without a catalog entry, one of them without a stored key
LegacyHistory ==
    /\ exerciseCatalog =
          {[id |-> 1, userId |-> "u1", name |-> Be,
            normalizedName |-> normalizeExerciseName(Be), lastPerformedAt |-> 1],
           [id |-> 2, userId |-> "u2", name |-> <<"B">>,
            normalizedName |-> normalizeExerciseName(<<"B">>), lastPerformedAt |-> 2]}
    /\ workoutLogs =
          {[id |-> 3, userId |-> "u1", title |-> "Pull", performedAt |-> 1,
            totalWeightLb |-> Weight(0)],
           [id |-> 4, userId |-> "u2", title |-> "Legs", performedAt |-> 2,
            totalWeightLb |-> Weight(180)]}
    /\ workoutExercises =
          {[id |-> 5, workoutLogId |-> 3, exerciseId |-> 0, name |-> Cu,
            normalizedName |-> <<>>, order |-> 1],
           [id |-> 6, workoutLogId |-> 3, exerciseId |-> 0, name |-> Bee,
            normalizedName |-> normalizeExerciseName(Bee), order |-> 2],
           [id |-> 7, workoutLogId |-> 4, exerciseId |-> 2, name |-> <<"B">>,
            normalizedName |-> normalizeExerciseName(<<"B">>), order |-> 1]}
    /\ workoutSets =
          {[workoutExerciseId |-> 5, order |-> 1, reps |-> 8, weightLb |-> NullWeight],
           [workoutExerciseId |-> 6, order |-> 1, reps |-> 8, weightLb |-> NullWeight],
           [workoutExerciseId |-> 7, order |-> 1, reps |-> 3, weightLb |-> Weight(60)]}
    /\ nextRowId = 10

InitScoped ==
    /\ SeedStore \/ ExampleHistory \/ LegacyHistory
    /\ InitServerIdle
    /\ InitNet
    /\ InitLogger(NoItem)
    /\ InitHist

\* requests of both users, one after the other; a write of sets can fail, and the
\* session is deleted again
NextScoped ==
    \/ /\ \A r \in DOMAIN posts : posts[r].pc = "responded"
       /\ \E userId \in {"u1", "u2"}, body \in {BodySameExerciseTwice, BodyHeavier} :
             DirectPost(userId, body)
    \/ \E r \in DOMAIN posts :
          \/ CreateLog(r, "ok")
          \/ UpsertExercise(r, "ok")
          \/ UpdateLastPerformedAt(r, "ok")
          \/ CreateWorkoutExercise(r, "ok")
          \/ \E outcome \in {"ok", "Other"} : CreateSets(r, outcome)
          \/ Compensate(r, "ok")

SpecScoped == InitScoped /\ [][NextScoped]_vars


(***************************************************************************)
(* Claims about route keys (checked under SpecScoped)                      *)
(***************************************************************************)

CatalogKeysOf(userId) == {e.normalizedName : e \in {c \in exerciseCatalog : c.userId = userId}}

\* the keys of the user's raw history: the stored key of a row, else that of its name
HistoryKeysOf(userId) ==
    {k \in {IF x.normalizedName # <<>> THEN x.normalizedName
             ELSE normalizeExerciseName(x.name) : x \in ExerciseRowsOf(userId)} : k # <<>>}

\* URL segments that are no route keys: names, escaped and badly escaped ones, nothing
PlainSegments ==
    {Cu, <<"B", "e", "%", "2", "0", "e">>, <<" ", "B", "%", "z", "z">>, <<"%", "2">>, <<>>}

\* C21: for every normalized key k of the user's catalog or raw history, resolving the
\* URL segment toRouteKey(k) yields k, and resolving a segment that is not shaped like
\* a route key yields its normalized text unchanged
C21_ResolutionInvertsDerivation ==
    \A userId \in HistoryUsers :
       /\ \A k \in CatalogKeysOf(userId) \cup HistoryKeysOf(userId) :
             resolveNormalizedExerciseKey(userId, toExerciseRouteKey(k)) = k
       /\ \A segment \in PlainSegments :
             ~isUuidLikeKey(normalizeExerciseName(decodedParam(segment)))
             => resolveNormalizedExerciseKey(userId, segment)
                   = normalizeExerciseName(decodedParam(segment))

\* a request has added a session to a history that holds an exercise without a catalog
\* entry, whose route key resolves to it by the scan of the raw history
C21_Witness ==
    /\ \E r \in DOMAIN posts : Responded(r) /\ posts[r].status = 201
    /\ \E k \in HistoryKeysOf("u1") \ CatalogKeysOf("u1") :
          /\ isUuidLikeKey(toExerciseRouteKey(k))
          /\ resolveNormalizedExerciseKey("u1", toExerciseRouteKey(k)) = k
    /\ resolveNormalizedExerciseKey("u1", <<"B", "e", "%", "2", "0", "e">>)
          = <<"b", "e", " ", "e">>


(***************************************************************************)
(* SpecNormalize: any text in a name input, and the keys derived from it   *)
(***************************************************************************)

\* characters of the text put into a name input
NameChars == {"b", "B", " ", "\t"}

\* length of the text put into a name input
MaxNameLen == 4

\* name inputs filled in one behaviour
MaxPastes == 1

PastedNames == UNION {[1..n -> NameChars] : n \in 0..MaxNameLen}

NextNormalize ==
    \/ Mount
    \/ /\ hist.edits < MaxPastes
       /\ \E id \in ExerciseIdsOf(exercises), rawValue \in PastedNames :
             HandleExerciseNameChange(id, rawValue)
    \/ \E id \in ExerciseIdsOf(exercises) : HandleExerciseNameBlur(id)
    \/ \E id \in DOMAIN suggestionDebounceTimeoutRef : SuggestionDebounceFire(id)
    \/ \E f \in suggestionFetches, ok \in BOOLEAN : SuggestionResponse(f, ok)
    \/ \E f \in insightFetches, ok \in BOOLEAN : InsightResponse(f, ok)
    \/ AutosaveFire(TRUE)
    \/ TimerPending /\ Tick(NextDueIn)

SpecNormalize == InitLookup /\ [][NextNormalize]_vars

\* every text the logger holds or has sent: the name inputs, the texts of the pending
\* debounce timers, the queries and names of the requests in flight
TextsInPlay ==
    {exercises[i].name : i \in 1..Len(exercises)}
    \cup {suggestionDebounceTimeoutRef[id].rawValue : id \in DOMAIN suggestionDebounceTimeoutRef}
    \cup {f.query : f \in suggestionFetches}
    \cup {f.exerciseName : f \in insightFetches}

\* no whitespace at either end, every whitespace a single space between two other
\* characters, no upper-case letter
IsNormalKey(k) ==
    /\ k # <<>> => ~IsWs(k[1]) /\ ~IsWs(k[Len(k)])
    /\ \A i \in 1..Len(k) : IsWs(k[i]) => k[i] = " "
    /\ \A i \in 1..(Len(k) - 1) : ~(IsWs(k[i]) /\ IsWs(k[i + 1]))
    /\ \A i \in 1..Len(k) : \A j \in 1..Len(UpperLetters) : k[i] # UpperLetters[j]

\* C23: normalizeKey is idempotent and total; its result has no leading, trailing or
\* doubled whitespace and no upper-case letter; the client's and the server's
\* normalizers agree on every text, so the key a request was issued under is the key
\* the server derives from the text the request carries.
C23_NormalizeKeyIdempotentAndShared ==
    /\ \A text \in TextsInPlay :
          LET key == normalizeExerciseLookupKey(text)
          IN  /\ DOMAIN key = 1..Len(key)
              /\ normalizeExerciseLookupKey(key) = key
              /\ IsNormalKey(key)
              /\ normalizeExerciseName(text) = key
              /\ normalizeExerciseName(key) = key
    /\ \A f \in suggestionFetches :
          /\ IsNormalKey(f.lookupKey)
          /\ f.lookupKey = normalizeExerciseName(f.query)
    /\ \A f \in insightFetches :
          /\ IsNormalKey(f.lookupKey)
          /\ f.lookupKey = InsightsGET(ClientUser, f.exerciseName).normalizedName
    /\ \A k \in DOMAIN insightCacheRef \cup DOMAIN suggestionCacheRef : IsNormalKey(k)

\* a suggestion request is in flight for a text with an upper-case letter and a run of
\* two different whitespace characters, under the key "b b"
C23_Witness ==
    \E f \in suggestionFetches :
        /\ f.query = <<"B", " ", "\t", "b">>
        /\ f.lookupKey = <<"b", " ", "b">>
        /\ NameOf(exercises, f.exerciseId) = f.query


(***************************************************************************)
(* Claims about the lookup caches (checked under SpecLookup)               *)
(***************************************************************************)

\* the step commits the name of slot id after an edit (blur, or an accepted suggestion)
CommitsName(id) ==
    /\ id \in hist.editedSinceCommit
    /\ id \notin hist'.editedSinceCommit
    /\ id \in DOMAIN hist'.committed

\* the step runs the debounce timer of slot id
RunsSuggestionLookup(id) ==
    /\ id \in DOMAIN suggestionDebounceTimeoutRef
    /\ id \notin DOMAIN suggestionDebounceTimeoutRef'
    /\ id \in DOMAIN hist'.lookup

\* an insight lookup of a committed name: from the cache without a request when the
\* key is stored, with a request in flight afterwards when it is not
InsightLookupUsesCache(id) ==
    LET lookupKey == hist'.committed[id]
    IN  IF lookupKey \in DOMAIN insightCacheRef
        THEN /\ insightFetches' = insightFetches
             /\ exerciseInsightById'[id] = [status |-> "ready", lookupKey |-> lookupKey,
                                            data |-> insightCacheRef[lookupKey]]
        ELSE lookupKey # <<>>
             => /\ \E f \in insightFetches' :
                      f.exerciseId = id /\ f.lookupKey = lookupKey
                /\ exerciseInsightById'[id].status = "loading"

\* a suggestion lookup: from the cache without a request when the key is stored, with
\* a request in flight afterwards when it is not
SuggestionLookupUsesCache(id) ==
    LET query == suggestionDebounceTimeoutRef[id].rawValue
        lookupKey == normalizeExerciseLookupKey(query)
    IN  IF lookupKey \in DOMAIN suggestionCacheRef
        THEN /\ suggestionFetches' = suggestionFetches
             /\ exerciseSuggestionById' =
                   setExerciseSuggestion(exerciseSuggestionById, id,
                       pickBestExerciseSuggestion(query, suggestionCacheRef[lookupKey]))
        ELSE \E f \in suggestionFetches' :
                f.exerciseId = id /\ f.lookupKey = lookupKey

\* a cache changes only when a response arrives, and then only at the key of that
\* response; a response that fails (the slot shows the error) changes nothing
CachesStoreResponsesOnly ==
    /\ DOMAIN insightCacheRef \subseteq DOMAIN insightCacheRef'
    /\ DOMAIN suggestionCacheRef \subseteq DOMAIN suggestionCacheRef'
    /\ \A k \in DOMAIN insightCacheRef' :
          k \notin DOMAIN insightCacheRef \/ insightCacheRef'[k] # insightCacheRef[k]
          => \E f \in insightFetches \ insightFetches' : f.lookupKey = k
    /\ \A k \in DOMAIN suggestionCacheRef' :
          k \notin DOMAIN suggestionCacheRef \/ suggestionCacheRef'[k] # suggestionCacheRef[k]
          => \E f \in suggestionFetches \ suggestionFetches' : f.lookupKey = k
    /\ \A f \in insightFetches \ insightFetches' :
          /\ f.exerciseId \in DOMAIN exerciseInsightById'
          /\ exerciseInsightById'[f.exerciseId].status = "error"
          /\ exerciseInsightById[f.exerciseId].status = "loading"
          => insightCacheRef' = insightCacheRef

\* C24: once a successful response for key k is stored in the insight (resp.
\* suggestion) cache, every later lookup whose name normalizes to k, from any slot, is
\* answered from the cache and issues no network request; a failed lookup stores
\* nothing, so a later lookup of that key issues a new request.
C24_CachedKeyNeedsNoRequest ==
    [][/\ CachesStoreResponsesOnly
       /\ \A f \in insightFetches' \ insightFetches :
             f.lookupKey \notin DOMAIN insightCacheRef
       /\ \A f \in suggestionFetches' \ suggestionFetches :
             f.lookupKey \notin DOMAIN suggestionCacheRef
       /\ \A id \in {ExerciseIds[n] : n \in 1..MaxExerciseId} :
             /\ CommitsName(id) => InsightLookupUsesCache(id)
             /\ RunsSuggestionLookup(id) => SuggestionLookupUsesCache(id)]_vars

\* no request is in flight, the caches hold the key "b", and two slots display the
\* stored insight of "b"
C24_Witness ==
    /\ insightFetches = {} /\ suggestionFetches = {}
    /\ <<"b">> \in DOMAIN insightCacheRef
    /\ <<"b">> \in DOMAIN suggestionCacheRef
    /\ Len(exercises) = 2
    /\ \A i \in 1..2 :
          /\ exercises[i].id \in DOMAIN exerciseInsightById
          /\ exerciseInsightById[exercises[i].id] =
                [status |-> "ready", lookupKey |-> <<"b">>, data |-> insightCacheRef[<<"b">>]]


(***************************************************************************)
(* SpecRequest: POST /api/workouts from the bytes of the request body      *)
(***************************************************************************)

\* what JSON.parse makes of a body text without members: [threw, type], where type is
\* the typeof of the value ("null" for null, which isObject tells apart)
ParseJsonText(text) ==
    LET t == Trim(text)
    IN  IF t = <<"n", "u", "l", "l">> THEN [threw |-> FALSE, type |-> "null"]
        ELSE IF t \in {<<"t", "r", "u", "e">>, <<"f", "a", "l", "s", "e">>}
             THEN [threw |-> FALSE, type |-> "boolean"]
        ELSE IF t # <<>> /\ AllDigits(t) /\ (Len(t) = 1 \/ t[1] # "0")
             THEN [threw |-> FALSE, type |-> "number"]
        ELSE IF t \in {<<"{", "}">>, <<"[", "]">>} THEN [threw |-> FALSE, type |-> "object"]
        ELSE [threw |-> TRUE, type |-> "undefined"]

\* part_004 isObject
isObject(parsed) == parsed.type = "object"

\* the object JSON.parse yields for "{}" or "[]": no member is defined
BodyWithoutMembers == [hasExercises |-> FALSE, title |-> "", performedAt |-> "", exercises |-> <<>>]

\* request bodies as sent: a text without members, or the text of an object with the
\* members of a workout payload
WireTexts ==
    {<<>>, <<"{">>, <<"n", "u", "l">>, <<"n", "u", "l", "l">>, <<"5">>, <<"t", "r", "u", "e">>,
     <<"[", "]">>, <<" ", "{", "}">>}

RawBodies ==
    {[wire |-> "text", text |-> t, body |-> BodyWithoutMembers] : t \in WireTexts}
    \cup {[wire |-> "members", text |-> <<>>, body |-> b] : b \in DirectBodies}

\* POST up to its first database write: getSessionUser, request.json() inside the try,
\* isObject, normalizePayload
ReceiveRequest(userId, raw) ==
    LET parsedJson == IF raw.wire = "text" THEN ParseJsonText(raw.text)
                      ELSE [threw |-> FALSE, type |-> "object"]
        received == Received("direct", userId, raw.body, normalizePayload(raw.body))
        post == IF userId = "" THEN received
                ELSE IF parsedJson.threw
                THEN [received EXCEPT !.pc = "responded", !.error = "SyntaxError",
                                      !.thrown = "SyntaxError",
                                      !.status = ErrorStatus("SyntaxError")]
                ELSE IF ~isObject(parsedJson)
                THEN [received EXCEPT !.pc = "responded", !.status = 400]
                ELSE received
    IN  post @@ ("raw" :> raw)

\* a request arrives at the route with the bytes of its body
PostRequest(userId, raw) ==
    /\ Cardinality(DOMAIN posts) < MaxPosts
    /\ posts' = MapSet(posts, Cardinality(DOMAIN posts) + 1, ReceiveRequest(userId, raw))
    /\ UNCHANGED <<storeVars, legacyPrismaClient, netVars, phase, formVars,
                   lookupVars, draftVars, submitVars, hist>>

RequestOutcomes == {"ok", "P2002", "P2021", "Initialization", "Other"}

InitRequest ==
    /\ SeedStore
    /\ posts = EmptyMap
    /\ legacyPrismaClient \in BOOLEAN
    /\ InitNet
    /\ InitLogger(NoItem)
    /\ InitHist

\* requests arrive one after the other; every database call can fail in every way
NextRequest ==
    \/ /\ \A r \in DOMAIN posts : posts[r].pc = "responded"
       /\ \E userId \in DirectUsers, raw \in RawBodies : PostRequest(userId, raw)
    \/ \E r \in DOMAIN posts, outcome \in RequestOutcomes :
          \/ CreateLog(r, outcome)
          \/ UpsertExercise(r, outcome)
          \/ UpdateLastPerformedAt(r, outcome)
          \/ CreateWorkoutExercise(r, outcome)
          \/ CreateSets(r, outcome)
          \/ DetectWorkoutSetWeightColumn(r, outcome)
          \/ InsertSetFallback(r, outcome)
          \/ Compensate(r, outcome)

SpecRequest == InitRequest /\ [][NextRequest]_vars

\* the input of the request is invalid: the body is not valid JSON, is not an object,
\* or is refused by normalizePayload
InvalidInput(raw) ==
    \/ raw.wire = "text" /\ ParseJsonText(raw.text).threw
    \/ raw.wire = "text" /\ ~isObject(ParseJsonText(raw.text))
    \/ normalizePayload(raw.body).error # ""

\* the statuses of the requests that fail before or at validation
RejectedWithItsStatus(post) ==
    /\ post.userId = "" => post.status = 401 /\ post.writes = 0 /\ post.logId = 0
    /\ post.userId # "" /\ InvalidInput(post.raw) => post.status = 400 /\ post.writes = 0

\* the statuses of the requests that reach persistWorkout
PersistedWithItsStatus(post) ==
    post.userId # "" /\ ~InvalidInput(post.raw)
    => /\ post.thrown = "P2002" => post.status = 409
       /\ post.thrown \in {"P2021", "Initialization"} => post.status = 503
       /\ post.thrown = "Other" => post.status = 500
       /\ post.thrown = "" => /\ post.status = 201
                              /\ post.logId # 0
                              /\ \E l \in workoutLogs : l.id = post.logId
       /\ post.thrown \in {"", "P2002", "P2021", "Initialization", "Other"}

\* C25: POST /workouts maps every outcome to one status: 401 without a signed-in user
\* (no write), 400 for every invalid input, a body that is not valid JSON or not an
\* object included, 409 on a unique violation, 503 on schema mismatch or unavailable
\* store, 500 on any other failure, 201 with the new session id on success.
C25_OneStatusPerOutcome ==
    \A r \in DOMAIN posts :
        Responded(r) => RejectedWithItsStatus(posts[r]) /\ PersistedWithItsStatus(posts[r])


(***************************************************************************)
(* SpecRestore: a draft is written, the logger is opened again and goes on *)
(***************************************************************************)

InitRestore ==
    /\ SeedStore
    /\ InitServerIdle
    /\ InitNet
    /\ \E item \in StoredItems : InitLogger(item)
    /\ InitHist

NextRestore ==
    \/ Mount
    \/ \E value \in Titles : SetTitle(value)
    \/ \E id \in ExerciseIdsOf(exercises) :
          \/ HandleExerciseNameChange(id, <<" ", "B">>)
          \/ \E setId \in SetIdsOf(exercises, id), typed \in RepsTyped :
                UpdateSetReps(id, setId, typed)
          \/ \E setId \in SetIdsOf(exercises, id), typed \in WeightTyped :
                UpdateSetWeight(id, setId, typed)
          \/ AddSet(id)
          \/ \E setId \in SetIdsOf(exercises, id) : RemoveSet(id, setId)
          \/ RemoveExercise(id)
    \/ AddExercise
    \/ PageHide(TRUE)
    \/ Unmount
    \/ Reopen

SpecRestore == InitRestore /\ [][NextRestore]_vars

\* the content of a list of exercises without the ids: names and sets in order
ContentOf(exs) ==
    [i \in 1..Len(exs) |->
        [name |-> exs[i].name,
         sets |-> [j \in 1..Len(exs[i].sets) |->
                     [reps |-> exs[i].sets[j].reps, weightLb |-> exs[i].sets[j].weightLb]]]]

\* all set ids of a list of exercises, in order
RECURSIVE AllSetIds(_)
AllSetIds(exs) ==
    IF exs = <<>> THEN <<>>
    ELSE [j \in 1..Len(Head(exs).sets) |-> Head(exs).sets[j].id] \o AllSetIds(Tail(exs))

PairwiseDistinct(ids) == \A a, b \in 1..Len(ids) : a # b => ids[a] # ids[b]

IdsDistinct(exs) ==
    /\ PairwiseDistinct([i \in 1..Len(exs) |-> exs[i].id])
    /\ PairwiseDistinct(AllSetIds(exs))

\* what loading the value persistWorkoutDraft stores for the current form would yield
StoredAndParsed == parseStoredWorkoutDraft(DraftItem(CurrentSnapshot))

\* the ids the next addExercise and addSet hand out are not among the given ones
NextIdsAreFresh(exs, counters) ==
    /\ \A i \in 1..Len(exs) : exs[i].id # ExerciseIds[counters.exercise + 1]
    /\ \A k \in 1..Len(AllSetIds(exs)) : AllSetIds(exs)[k] # SetIds[counters.set + 1]

\* storing the current form and loading it again gives back its title and content,
\* under ids that are pairwise distinct and below the ids handed out next
RoundTripOfCurrentForm ==
    phase = "mounted"
    => /\ StoredAndParsed # <<>>
       /\ StoredAndParsed[1].title = title
       /\ LET hydrated == hydrateExercisesFromSnapshot(StoredAndParsed[1].exercises)
          IN  /\ ContentOf(hydrated.exercises) = ContentOf(exercises)
              /\ IdsDistinct(hydrated.exercises)
              /\ NextIdsAreFresh(hydrated.exercises, hydrated.counters)

\* the load effect finds a draft: the form takes its title and content
MountRestoresStored ==
    phase = "initial" /\ phase' = "mounted" /\ storage.kind = "draft"
    => /\ didRestoreDraft'
       /\ title' = storage.title
       /\ ContentOf(exercises') = storage.exercises

\* C26: draft restore is a round trip: persisting the snapshot of a form and loading
\* it (parse + hydrate) yields the same title, the same exercises in the same order
\* with the same names, and the same sets in the same order with the same reps and
\* weight strings; the hydrated exercise ids and set ids are pairwise distinct, and
\* ids handed out by later addExercise / addSet never collide with them.
C26_DraftRestoreRoundTrip ==
    /\ [](RoundTripOfCurrentForm /\ IdsDistinct(exercises)
          /\ (phase = "mounted" => NextIdsAreFresh(exercises, idCounterRef)))
    /\ [][MountRestoresStored]_vars

\* the logger was opened a second time, restored the draft the first visit wrote (one
\* exercise with two sets, a weight typed with a comma) and an exercise was added
C26_Witness ==
    /\ phase = "mounted" /\ didRestoreDraft /\ hist.opens = 2
    /\ Len(exercises) = 2
    /\ Len(exercises[1].sets) = 2
    /\ \E j \in 1..2 : exercises[1].sets[j].weightLb = <<"2", ".", "5">>
    /\ exercises[2].id = ExerciseIds[2]
    /\ exercises[2].sets[1].id = SetIds[3]


(***************************************************************************)
(* SpecTenant: the logger of one user reads while requests of another     *)
(* user write                                                              *)
(***************************************************************************)

InitTenant ==
    /\ SeedStore \/ LegacyHistory
    /\ InitServerIdle
    /\ InitNet
    /\ InitLogger(NoItem)
    /\ InitHist

\* the users whose requests arrive: everyone but the signed-in user of the logger
OtherUsers == HistoryUsers \ {ClientUser}

\* the signed-in user types a name once, the suggestion and the insight for it are
\* fetched and cached; requests of another user arrive one after the other, and a
\* write of sets can fail, after which the session is deleted again
NextTenant ==
    \/ Mount
    \/ /\ hist.edits < MaxPastes
       /\ \E id \in ExerciseIdsOf(exercises), rawValue \in {Cu, <<"b">>} :
             HandleExerciseNameChange(id, rawValue)
    \/ \E id \in ExerciseIdsOf(exercises) : HandleExerciseNameBlur(id)
    \/ \E id \in DOMAIN suggestionDebounceTimeoutRef : SuggestionDebounceFire(id)
    \/ \E f \in suggestionFetches : SuggestionResponse(f, TRUE)
    \/ \E f \in insightFetches : InsightResponse(f, TRUE)
    \/ TimerPending /\ Tick(NextDueIn)
    \/ /\ \A r \in DOMAIN posts : posts[r].pc = "responded"
       /\ \E userId \in OtherUsers : DirectPost(userId, BodySameExerciseTwice)
    \/ \E r \in DOMAIN posts :
          \/ CreateLog(r, "ok")
          \/ UpsertExercise(r, "ok")
          \/ UpdateLastPerformedAt(r, "ok")
          \/ CreateWorkoutExercise(r, "ok")
          \/ \E outcome \in {"ok", "Other"} : CreateSets(r, outcome)
          \/ Compensate(r, "ok")

SpecTenant == InitTenant /\ [][NextTenant]_vars


(***************************************************************************)
(* Claims about the scope of the reads (checked under SpecTenant)          *)
(***************************************************************************)

\* URL segments asked for: the route keys of keys the users have, and plain text
ReadSegments ==
    {toExerciseRouteKey(normalizeExerciseName(name)) : name \in {Be, Cu, <<"b">>}}
    \cup {Cu, <<"%", "2">>}

\* the keys of the user's own catalog and history that have the given route key
OwnKeysWithRouteKey(userId, routeKey) ==
    {k \in CatalogKeysOf(userId) \cup HistoryKeysOf(userId) : toExerciseRouteKey(k) = routeKey}

\* the resolved key is determined by the segment and the user's own keys: the
\* segment's text, or the own key with that route key
ResolvedFromOwnData(userId) ==
    \A segment \in ReadSegments :
        LET normalizedDirect == normalizeExerciseName(decodedParam(segment))
            resolved == resolveNormalizedExerciseKey(userId, segment)
            own == OwnKeysWithRouteKey(userId, normalizedDirect)
        IN  IF isUuidLikeKey(normalizedDirect) /\ own # {}
            THEN resolved \in own
            ELSE resolved = normalizedDirect

\* no request of the signed-in user has been received: the user's own sessions and
\* catalog are as they were when the logger was opened
OwnDataUntouched == \A r \in DOMAIN posts : posts[r].userId # ClientUser

\* every response the logger has cached is the response the server gives now
CachedResponsesStillCurrent ==
    /\ \A k \in DOMAIN insightCacheRef :
          [insightCacheRef[k] EXCEPT !.exerciseName = k] = InsightsGET(ClientUser, k)
    /\ \A k \in DOMAIN suggestionCacheRef :
          suggestionCacheRef[k] = SanitizeSuggestions(SuggestionsGET(ClientUser, k))

\* C27: every read is scoped to the requesting user: the insights response, the
\* suggestions response and the key resolution for user A are determined by A's own
\* sessions and catalog, so whatever is created, changed or deleted for another user
\* leaves the responses A has received current, and resolution never returns a key
\* taken from another user's data.
C27_ReadsScopedToUser ==
    /\ \A userId \in HistoryUsers : ResolvedFromOwnData(userId)
    /\ OwnDataUntouched => CachedResponsesStillCurrent

\* the logger holds the insight and the suggestions of "cu" from before or while a
\* request of u2 stored a session with "cu"; they are still what the server answers,
\* and the route key of "cu" resolves for u2 and not for u1
C27_Witness ==
    /\ OwnDataUntouched
    /\ \E r \in DOMAIN posts : posts[r].userId = "u2" /\ Responded(r) /\ posts[r].status = 201
    /\ normalizeExerciseName(Cu) \in DOMAIN insightCacheRef
    /\ normalizeExerciseName(Cu) \in DOMAIN suggestionCacheRef
    /\ normalizeExerciseName(Cu) \in CatalogKeysOf("u2")
    /\ normalizeExerciseName(Cu) \notin CatalogKeysOf("u1") \cup HistoryKeysOf("u1")
    /\ InsightsGET("u2", Cu).sessionsCount > 0
    /\ resolveNormalizedExerciseKey("u1", toExerciseRouteKey(normalizeExerciseName(Cu)))
          = toExerciseRouteKey(normalizeExerciseName(Cu))
    /\ resolveNormalizedExerciseKey("u2", toExerciseRouteKey(normalizeExerciseName(Cu)))
          = normalizeExerciseName(Cu)


(***************************************************************************)
(* SpecLookupLive: SpecLookup with every insight request completing        *)
(***************************************************************************)

\* the slots of the form
SlotIds == {ExerciseIds[n] : n \in 1..MaxExerciseId}

\* the names a slot can commit: the display form of what was typed or of a suggestion
\* (a name of the catalog of SeedStore)
CommittedNames ==
    {normalizeExerciseDisplayName(name) : name \in TypedNames \cup {Be, Bee, <<"B">>}}

\* the insight requests that can be in flight
InsightRequests ==
    {[exerciseId |-> id, exerciseName |-> name,
      lookupKey |-> normalizeExerciseLookupKey(name)] : id \in SlotIds, name \in CommittedNames}

\* the fetch of an insight request settles: its promise resolves or rejects
InsightRequestCompletes(f) == \E ok \in BOOLEAN : InsightResponse(f, ok)

\* every issued insight request eventually completes, whatever else goes on
SpecLookupLive ==
    /\ SpecLookup
    /\ \A f \in InsightRequests : WF_vars(InsightRequestCompletes(f))

\* every request in flight is one of the requests the fairness condition speaks of
InFlightAreInsightRequests == insightFetches \subseteq InsightRequests

\* C28: if every issued insight request eventually completes, no slot stays in the
\* loading state forever: every loading state of a slot is eventually followed by
\* ready, error or idle for that slot, under any interleaving of edits, commits,
\* removals and response arrivals.
C28_LoadingEnds ==
    /\ []InFlightAreInsightRequests
    /\ \A id \in SlotIds : (InsightStatus(id) = "loading") ~> (InsightStatus(id) # "loading")

\* two slots are loading, each with its own request in flight
C28_Witness ==
    /\ Cardinality(insightFetches) = 2
    /\ \A id \in SlotIds : InsightStatus(id) = "loading"
    /\ \A id \in SlotIds : \E f \in insightFetches : f.exerciseId = id


(***************************************************************************)
(* SpecSuggest: SpecLookup with the component's teardown                   *)
(***************************************************************************)

NextSuggest ==
    \/ NextLookup
    \/ Unmount

SpecSuggest == InitLookup /\ [][NextSuggest]_vars

\* the slot's name has not been edited since it was last blurred, had a suggestion
\* accepted or was removed
Settled(id) == id \notin hist.editedSinceCommit

\* nothing of a suggestion lookup is left for the slot: no pending timer, no latest
\* lookup a response could match, no suggestion on display
NoSuggestionLookupLeft(id) ==
    /\ id \notin DOMAIN suggestionDebounceTimeoutRef
    /\ id \notin DOMAIN latestSuggestionLookupRef
    /\ phase = "mounted" => id \notin DOMAIN exerciseSuggestionById

\* a suggestion response that arrives for a settled slot changes no suggestion
SettledSlotDiscardsResponse ==
    \A f \in suggestionFetches \ suggestionFetches' :
        Settled(f.exerciseId) /\ phase = "mounted"
        => exerciseSuggestionById' = exerciseSuggestionById

\* C29: a slot holds at most one pending suggestion debounce timer, and after the slot
\* is blurred, has a suggestion accepted or is removed, or the component is torn down,
\* its pending timer is cancelled and every suggestion response in flight for it is
\* discarded: no suggestion becomes displayed for the slot, and none reappears for a
\* removed slot, until its name is edited again.
C29_SettledSlotShowsNoSuggestion ==
    /\ [](/\ \A id \in SlotIds : Settled(id) => NoSuggestionLookupLeft(id)
          /\ \A id \in SlotIds \ ExerciseIdsOf(exercises) :
                Settled(id) /\ NoSuggestionLookupLeft(id)
          /\ phase = "unmounted" => suggestionDebounceTimeoutRef = EmptyMap)
    /\ [][SettledSlotDiscardsResponse]_vars

\* a slot was blurred while a suggestion request for it was in flight: the request is
\* still under way, and the slot has no timer, no latest lookup and no suggestion
C29_Witness ==
    \E f \in suggestionFetches :
        /\ phase = "mounted"
        /\ f.exerciseId \in ExerciseIdsOf(exercises)
        /\ f.exerciseId \in DOMAIN hist.committed
        /\ Settled(f.exerciseId)
        /\ NoSuggestionLookupLeft(f.exerciseId)
        /\ SanitizeSuggestions(SuggestionsGET(ClientUser, f.query)) # <<>>


(***************************************************************************)
(* Claims about the save request (checked under SpecServer)                *)
(***************************************************************************)

\* the requests the logger's form has sent that the route has not answered yet
ClientPostsInHandler ==
    {r \in DOMAIN posts : posts[r].origin = "client" /\ ~Responded(r)}

\* the step sends a POST /api/workouts from the logger
IssuesPost ==
    /\ saveFetch' # <<>>
    /\ saveFetch'[1].state = "sent"
    /\ saveFetch = <<>> \/ saveFetch[1].state # "sent"

\* isSaving is set exactly while the save request is under way, and the route handles
\* at most one request of the form at a time
SavingIffInFlight ==
    /\ isSaving <=> saveFetch # <<>>
    /\ Cardinality(ClientPostsInHandler) <= 1

\* a POST is sent only when no save request is under way
NoPostWhileInFlight == IssuesPost => saveFetch = <<>> /\ ~isSaving

\* a POST sent after the form has created a session follows a reported failure
ResubmitOnlyAfterFailure == IssuesPost /\ hist.savedOk => formError # ""

\* while a save request is in flight no submit sends another one
OneSaveInFlight == [](SavingIffInFlight) /\ [][NoPostWhileInFlight]_vars

\* C30: while a save request of the logger is in flight, further submit events issue no
\* additional POST /api/workouts, so at most one create-session request is in flight at
\* any time, and one filled-in form creates at most one session unless the user
\* resubmits after a reported failure.
C30_OneSessionPerForm ==
    /\ [](SavingIffInFlight)
    /\ [][NoPostWhileInFlight /\ ResubmitOnlyAfterFailure]_vars

====
